---- MODULE Spec2Model ----
(***************************************************************************)
(* Currency Converter Pro: the content script (src/content.js) as a state  *)
(* machine.  One page with a few elements is scanned by convertPrices and  *)
(* mutated by the context-menu conversions, while settings and exchange    *)
(* rates arrive through asynchronous messages.                             *)
(*                                                                         *)
(* Amounts are whole currency units; a rate is the number of units of the  *)
(* currency per RateScale units of the USD pivot; 0 stands for a rate that *)
(* is absent from the table (undefined, hence falsy, in the source).       *)
(***************************************************************************)
EXTENDS Integers, Sequences, FiniteSets, TLC

\* ------------------------------------------------------------------ bounds
NumElems == 2
MaxEvents == 2
MaxConv == 2

\* ------------------------------------------------------- program constants
ConversionLimit == 100
MaxAmount == 1000000000
ConfidenceThreshold == 60
SaleThreshold == 50
RateScale == 100

Elems == 1..NumElems
NoElem == 0
Null == -1
NaN == -2

Currencies == {"USD", "ILS", "EUR", "GBP", "JPY", "BTC"}
CryptoCodes == {"BTC"}
NoCurrency == "NONE"
Undefined == "undefined"

\* let exchangeRates = { USD: 1, ILS: 3.7, EUR: 1.1, GBP: 0.8 }
BuiltinRates ==
  [c \in Currencies |->
     CASE c = "USD" -> 100 [] c = "ILS" -> 370 [] c = "EUR" -> 110
       [] c = "GBP" -> 80 [] OTHER -> 0]

\* a table the background service can reply with
LiveRates ==
  [c \in Currencies |->
     CASE c = "USD" -> 100 [] c = "ILS" -> 360 [] c = "EUR" -> 90
       [] c = "GBP" -> 80 [] c = "JPY" -> 15000 [] OTHER -> 1]

\* the background's table before any fetch succeeded: let exchangeRates = {}
EmptyRates == [c \in Currencies |-> 0]

RateTables == {BuiltinRates, LiveRates, EmptyRates}

Rate(rates, c) == IF c \in Currencies THEN rates[c] ELSE 0

\* ---------------------------------------------------------------- settings
\* let settings = { defaultTargetCurrency: 'ILS', ..., showInlineConversion:
\* true, replacePrice: false }
DefaultSettings == [target |-> "ILS", replacePrice |-> FALSE, showInline |-> TRUE]

\* what the options page can have stored in chrome.storage.sync
StoredChoices ==
  { DefaultSettings,
    [target |-> "EUR", replacePrice |-> FALSE, showInline |-> TRUE],
    [target |-> "ILS", replacePrice |-> TRUE, showInline |-> TRUE] }

\* ------------------------------------------------------------ page content
\* The detection passes of convertPrices, in the order they run.  "semantic"
\* stands for the passes that share its shape (attributes, tables, lists,
\* forms, visual styles, adjacent labels, shadow DOM, text patterns, ARIA).
SafePasses == <<"crypto", "semantic", "structured", "meta">>
PassNames == {"crypto", "semantic", "structured", "meta", "selector", "walker"}

\* What the page author wrote for one element: which passes select it, the
\* currency and amount its text holds, and the signals pass 14 looks at:
\* whether the text matches a phone, percentage, product-code or dimension
\* pattern of isProbablyPrice, the confidence isProbablyPrice gives it
\* otherwise, and the visual, semantic, contextual and structural scores.
\* The defaults are those of a large bold <span id="price">.
Leaf(passes, src, amt) ==
  [passes |-> passes, src |-> src, amt |-> amt, range |-> FALSE,
   throwsIn |-> "none", reject |-> FALSE, validation |-> 100, visual |-> 100,
   semantic |-> 0, contextual |-> 70, structural |-> 70, fragmented |-> FALSE,
   shipping |-> FALSE, saleConf |-> 0, extra |-> FALSE, max |-> 0]

\* isProbablyPrice(text, element).confidence
IsProbablyPrice(k) == IF k.reject THEN 0 ELSE k.validation

\* scorePriceElement(element, text).total: Math.round of the weighted sum
ScorePriceElement(k) ==
  (25 * IsProbablyPrice(k) + 20 * k.visual + 25 * k.semantic
     + 15 * k.contextual + 15 * k.structural + 50) \div 100

\* <span id="price">$10</span>, <span id="price">&#8362;10</span>,
\* <span id="price">$10-$20</span>
KPrice == Leaf({"crypto", "selector", "walker"}, "USD", 10)
KSame == Leaf({"crypto", "selector", "walker"}, "ILS", 10)
KRange ==
  [Leaf({"crypto", "selector", "walker"}, "USD", 10) EXCEPT !.range = TRUE, !.max = 20]
\* <span>1 BTC</span>: no fiat symbol or code, so only the crypto pass sees it
KCrypto == Leaf({"crypto"}, "BTC", 1)
\* a JSON-LD Offer {price: 10, priceCurrency: "USD"}; <meta property=
\* "product:price:amount" content="10"> with its currency meta tag
KOffer == Leaf({"structured"}, "USD", 10)
KMeta == Leaf({"meta"}, "USD", 10)
\* <span data-price="$10">$10</span>
KAttr == Leaf({"crypto", "semantic", "selector", "walker"}, "USD", 10)
\* <svg class="price"> holding the spans "$" and "10": its className is not
\* a string, so elementClasses.includes is not a function
KBad == [Leaf({"selector"}, "USD", 10) EXCEPT !.throwsIn = "selector"]
\* <span>$10</span> that no selector matches, and the container
\* <cost>Now <span>$10</span></cost> around it
KText == Leaf({"crypto", "walker"}, "USD", 10)
KWrap == [Leaf({"walker"}, "USD", 10) EXCEPT !.extra = TRUE]
\* <span class="price">$10</span> in the body font: visual score 60
KLow == [Leaf({"selector", "walker"}, "USD", 10) EXCEPT !.visual = 60]
\* <span class="price"><span>$</span><span>10</span></span> in the body font:
\* no text node holds both the symbol and a digit
KFrag == [Leaf({"selector"}, "USD", 10) EXCEPT !.visual = 60, !.fragmented = TRUE]
\* <span class="price">$10 x 2</span>: the dimension pattern
KDim == [Leaf({"selector", "walker"}, "USD", 10) EXCEPT !.reject = TRUE]
\* <span class="price">$10 shipping</span>
KShip == [Leaf({"selector", "walker"}, "USD", 10) EXCEPT !.shipping = TRUE]
\* <span class="price" style="text-decoration: line-through">$10 was</span>:
\* 40 for the strikethrough and 30 for the keyword
KSale == [Leaf({"selector", "walker"}, "USD", 10) EXCEPT !.saleConf = 70]
\* <span id="price">&#165;1,000,000,001</span>
KBig == Leaf({"selector", "walker"}, "JPY", MaxAmount + 1)

LeafKinds ==
  {KPrice, KSame, KRange, KCrypto, KOffer, KMeta, KAttr, KBad, KText,
   KLow, KFrag, KDim, KShip, KSale, KBig}

\* A page is flat, with a first element of any kind followed by ordinary
\* prices, or its element 1 is the container and element 2 the span in it.
FlatPages ==
  { [kinds |-> [e \in Elems |-> IF e = 1 THEN k ELSE KPrice],
     parent |-> [e \in Elems |-> NoElem]] : k \in LeafKinds }
NestedPages ==
  { [kinds |-> [e \in Elems |-> IF e = 1 THEN KWrap ELSE IF e = 2 THEN KText ELSE KPrice],
     parent |-> [e \in Elems |-> IF e = 2 THEN 1 ELSE NoElem]] }
Pages == FlatPages \cup NestedPages

\* --------------------------------------------------------------- DOM state
NoText == [cur |-> NoCurrency, val |-> 0]

FreshElement(k) ==
  [ form |-> "orig",               \* visible text: orig, replaced, inline
    cur |-> k.src,                 \* currency the visible text shows
    val |-> k.amt,                 \* amount the visible text shows
    title |-> "none",              \* title attribute: none, conv, orig
    dsConverted |-> FALSE,         \* data-converted
    dsOrig |-> FALSE,              \* data-original-price
    dsSrc |-> Undefined,           \* data-source-currency
    dsAmt |-> NaN,                 \* parseFloat(data-source-amount)
    dsText |-> NoText,             \* data-converted-text
    shownMax |-> Null,             \* upper amount of a converted range text
    replacedOriginal |-> FALSE,    \* data-replaced-original
    replacedNow |-> FALSE,         \* data-replaced-now
    menu |-> FALSE,                \* contextmenu listener installed
    attached |-> TRUE,             \* still in the document
    nconv |-> 0,                   \* conversions applied to the element
    by |-> "none",                 \* path of the last conversion
    from |-> NoCurrency,           \* its source currency
    to |-> NoCurrency ]            \* its target currency

VARIABLES
  page,               \* the page as the site served it
  dom,                \* per element: visible text, attributes, bookkeeping
  processedElements,  \* let processedElements = new WeakSet()
  settings,           \* let settings
  stored,             \* chrome.storage.sync
  exchangeRates,      \* let exchangeRates
  pc,                 \* position of init(): settings, rates, ready
  timers,             \* pending setTimeout(convertPrices, ...) callbacks
  pendingLoads,       \* number of loadSettings() calls of settingsUpdated in flight
  pendingPos,         \* findAndConvertPriceAtPosition awaiting the rates
  lastClickedPrice,   \* let lastClickedPrice
  lastScan,           \* outcome of the latest convertPrices call
  events,             \* external events so far
  detail              \* one price element seen character by character

vars == <<page, dom, processedElements, settings, stored, exchangeRates, pc,
          timers, pendingLoads, pendingPos, lastClickedPrice, lastScan, events,
          detail>>

Min(a, b) == IF a < b THEN a ELSE b

\* the only child element of e that is still in the document, or NoElem
ChildOf(pg, d, e) ==
  IF \E c \in Elems : pg.parent[c] = e /\ d[c].attached
    THEN CHOOSE c \in Elems : pg.parent[c] = e /\ d[c].attached
    ELSE NoElem

\* element.textContent as the detectors read it: the currency and amount
TextOf(pg, d, e) ==
  LET c == ChildOf(pg, d, e)
  IN IF c # NoElem THEN [cur |-> d[c].cur, val |-> d[c].val]
     ELSE [cur |-> d[e].cur, val |-> d[e].val]

\* element.textContent = txt: the element's child nodes are replaced
SetText(pg, d, e, form, txt) ==
  [x \in Elems |->
     IF x = e THEN [d[x] EXCEPT !.form = form, !.cur = txt.cur, !.val = txt.val]
     ELSE IF pg.parent[x] = e THEN [d[x] EXCEPT !.attached = FALSE]
     ELSE d[x]]

\* ------------------------------------------------------- conversion engine
\* the conversion without the check that both rates are in the table
CalculateConversionUnguarded(amount, src, tgt, rates) ==
  IF Rate(rates, src) = 0 THEN amount
  ELSE (amount * Rate(rates, tgt)) \div Rate(rates, src)

\* calculateConversion(amount, sourceCurrency, targetCurrency)
CalculateConversion(amount, src, tgt, rates) ==
  IF Rate(rates, src) = 0 \/ Rate(rates, tgt) = 0 THEN Null
  ELSE (amount * Rate(rates, tgt)) \div Rate(rates, src)

\* (sourceAmount / exchangeRates[src]) * exchangeRates[tgt] without any guard
UncheckedConversion(amount, src, tgt, rates) ==
  IF amount = NaN \/ Rate(rates, src) = 0 \/ Rate(rates, tgt) = 0 THEN NaN
  ELSE (amount * Rate(rates, tgt)) \div Rate(rates, src)

\* generateConvertedText(originalPrice, convertedAmount, targetCurrency)
GenerateConvertedText(convertedAmount, tgt) == [cur |-> tgt, val |-> convertedAmount]

\* !amount || amount <= 0 || amount > 1000000000
BadAmount(amount) == amount <= 0 \/ amount > MaxAmount

Bump(n) == Min(n + 1, MaxConv)

\* applyConversion(element, amount, sourceCurrency, convertedAmount, target)
ApplyConversion(pg, d, e, amount, src, convertedAmount, s) ==
  LET txt == GenerateConvertedText(convertedAmount, s.target)
      d1 == [d EXCEPT ![e].dsOrig = TRUE, ![e].dsConverted = TRUE,
                      ![e].dsSrc = src, ![e].dsAmt = amount, ![e].dsText = txt,
                      ![e].menu = TRUE, ![e].nconv = Bump(d[e].nconv),
                      ![e].by = "scan", ![e].from = src, ![e].to = s.target]
  IN IF s.replacePrice
       THEN [SetText(pg, d1, e, "replaced", txt) EXCEPT ![e].title = "orig"]
       ELSE IF s.showInline THEN [d1 EXCEPT ![e].title = "conv"] ELSE d1

\* ------------------------------------------------------------ the scan
\* State threaded through one pass: the DOM, the processed set, converted
\* and skipped counters, whether a candidate raised, whether the loop broke
\* off at the conversion limit, and the text nodes the TreeWalker accepted.
PassState(d, p, c, k) ==
  [dom |-> d, proc |-> p, converted |-> c, skipped |-> k, thrown |-> FALSE,
   stop |-> FALSE, nodes |-> {}]

Skipped(ps) == [ps EXCEPT !.skipped = @ + 1]
Raise(ps) == [ps EXCEPT !.thrown = TRUE]
Seen(ps, e) == e \in ps.proc \/ ps.dom[e].dsConverted
IsRange(pg, d, e) == pg.kinds[e].range /\ d[e].form = "orig"

\* the data-* attributes the range and crypto branches write themselves
StoreConversion(d, e, src, txt, tgt) ==
  [d EXCEPT ![e].dsConverted = TRUE, ![e].dsOrig = TRUE, ![e].dsSrc = src,
            ![e].dsText = txt, ![e].nconv = Bump(d[e].nconv),
            ![e].by = "scan", ![e].from = src, ![e].to = tgt]

\* convertPriceRange(rangeData, targetCurrency): convertedMin, and with the
\* maximum price as argument convertedMax
ConvertPriceRange(minPrice, src, tgt, rates) ==
  IF Rate(rates, src) = 0 \/ Rate(rates, tgt) = 0 THEN Null
  ELSE (minPrice * Rate(rates, tgt)) \div Rate(rates, src)

\* the display branch shared by the two range conversions
ShowRange(pg, d, e, src, conv, hi, s) ==
  LET txt == GenerateConvertedText(conv, s.target)
      d1 == [StoreConversion(d, e, src, txt, s.target) EXCEPT ![e].shownMax = hi]
  IN IF s.replacePrice
       THEN [SetText(pg, d1, e, "replaced", txt) EXCEPT ![e].title = "orig"]
       ELSE IF s.showInline THEN [d1 EXCEPT ![e].title = "conv"] ELSE d1

Converted(ps, d, e) ==
  [ps EXCEPT !.dom = d, !.proc = @ \cup {e}, !.converted = @ + 1]

\* detectPricesFromCrypto, loop body
CryptoStep(pg, s, rates, ps, e) ==
  LET t == TextOf(pg, ps.dom, e)
      conv == (t.val * Rate(rates, s.target)) \div Rate(rates, t.cur)
      txt == GenerateConvertedText(conv, s.target)
      d1 == StoreConversion(ps.dom, e, t.cur, txt, s.target)
      d2 == IF s.replacePrice
              THEN [SetText(pg, d1, e, "replaced", txt) EXCEPT ![e].title = "orig"]
            ELSE IF s.showInline
              THEN SetText(pg, d1, e, "inline", t)
            ELSE [d1 EXCEPT ![e].title = "conv"]
  IN IF Seen(ps, e) THEN Skipped(ps)
     ELSE IF pg.kinds[e].throwsIn = "crypto" THEN Raise(ps)
     ELSE IF t.cur \notin CryptoCodes THEN Skipped(ps)
     ELSE IF BadAmount(t.val) THEN Skipped(ps)
     ELSE IF Rate(rates, t.cur) = 0 THEN Skipped(ps)
     ELSE IF Rate(rates, s.target) = 0 THEN Skipped(ps)
     ELSE Converted(ps, d2, e)

\* detectPricesFromSemanticHTML, loop body
SemanticStep(pg, s, rates, ps, e) ==
  LET k == pg.kinds[e]
      conv == CalculateConversion(k.amt, k.src, s.target, rates)
  IN IF Seen(ps, e) THEN Skipped(ps)
     ELSE IF k.throwsIn = "semantic" THEN Raise(ps)
     ELSE IF k.src = NoCurrency \/ k.src = s.target THEN Skipped(ps)
     ELSE IF BadAmount(k.amt) THEN Skipped(ps)
     ELSE IF conv = Null \/ conv = 0 THEN Skipped(ps)
     ELSE Converted(ps, ApplyConversion(pg, ps.dom, e, k.amt, k.src, conv, s), e)

\* detectPricesFromStructuredData, findPrices on one Offer
StructuredStep(pg, s, rates, ps, e) ==
  LET k == pg.kinds[e]
      conv == CalculateConversion(k.amt, k.src, s.target, rates)
  IN IF k.amt > 0 /\ k.amt < MaxAmount /\ k.src # s.target
          /\ conv # Null /\ conv # 0
       THEN [ps EXCEPT !.converted = @ + 1]
       ELSE ps

\* detectPricesFromMetaTags, loop body
MetaStep(pg, s, rates, ps, e) ==
  LET k == pg.kinds[e]
      conv == CalculateConversion(k.amt, k.src, s.target, rates)
  IN IF BadAmount(k.amt) THEN Skipped(ps)
     ELSE IF k.src = NoCurrency \/ k.src = s.target THEN Skipped(ps)
     ELSE IF conv = Null \/ conv = 0 THEN Skipped(ps)
     ELSE [ps EXCEPT !.converted = @ + 1]

\* the single-price tail shared by pass 14 and the TreeWalker loop
SinglePrice(pg, s, rates, ps, e) ==
  LET t == TextOf(pg, ps.dom, e)
      conv == CalculateConversion(t.val, t.cur, s.target, rates)
      done == Converted(ps, ApplyConversion(pg, ps.dom, e, t.val, t.cur, conv, s), e)
  IN IF t.cur = NoCurrency THEN ps
     ELSE IF t.cur = s.target THEN Skipped(ps)
     ELSE IF BadAmount(t.val) THEN ps
     ELSE IF conv = Null \/ conv = 0 THEN ps
     ELSE [done EXCEPT !.stop = (ps.converted + 1 >= ConversionLimit)]

\* convertPrices, pass 14: loop body over the selector matches
SelectorStep(pg, s, rates, ps, e) ==
  LET k == pg.kinds[e]
      t == TextOf(pg, ps.dom, e)
      rng == ConvertPriceRange(t.val, t.cur, s.target, rates)
      hi == ConvertPriceRange(pg.kinds[e].max, t.cur, s.target, rates)
      rest ==
        IF k.throwsIn = "selector" THEN Raise(ps)
        ELSE IF ~k.fragmented /\ ScorePriceElement(k) < ConfidenceThreshold THEN Skipped(ps)
        ELSE IF k.shipping THEN Skipped(ps)
        ELSE IF k.saleConf > SaleThreshold THEN Skipped(ps)
        ELSE SinglePrice(pg, s, rates, ps, e)
  IN IF Seen(ps, e) THEN ps
     ELSE IF IsRange(pg, ps.dom, e)
       THEN IF t.cur # NoCurrency /\ t.cur # s.target
              THEN IF rng # Null
                     THEN Converted(ps, ShowRange(pg, ps.dom, e, t.cur, rng, hi, s), e)
                     ELSE rest
              ELSE Skipped([ps EXCEPT !.proc = @ \cup {e}])
     ELSE rest

\* convertPrices, strategy 2: loop body over the collected text nodes
WalkerStep(pg, s, rates, ps, e) ==
  LET k == pg.kinds[e]
      t == TextOf(pg, ps.dom, e)
      rng == ConvertPriceRange(t.val, t.cur, s.target, rates)
      hi == ConvertPriceRange(pg.kinds[e].max, t.cur, s.target, rates)
      rest == IF k.throwsIn = "walker" THEN Raise(ps)
              ELSE SinglePrice(pg, s, rates, ps, e)
  IN IF Seen(ps, e) THEN ps
     ELSE IF IsRange(pg, ps.dom, e)
       THEN IF t.cur = s.target
              THEN Skipped([ps EXCEPT !.proc = @ \cup {e}])
              ELSE IF rng # Null
                     THEN Converted(ps, ShowRange(pg, ps.dom, e, t.cur, rng, hi, s), e)
                     ELSE rest
     ELSE rest

\* acceptNode of the TreeWalker: the parent of a text node with a currency
\* marker and a digit, not yet processed
WalkerAccepts(pg, ps, e) ==
  /\ "walker" \in pg.kinds[e].passes
  /\ ps.dom[e].attached
  /\ ChildOf(pg, ps.dom, e) = NoElem
  /\ ~Seen(ps, e)
  /\ ps.dom[e].cur # NoCurrency /\ ps.dom[e].val > 0

Selects(pass, pg, ps, e) ==
  IF pass = "walker" THEN e \in ps.nodes
  ELSE ps.dom[e].attached /\ pass \in pg.kinds[e].passes

Step(pass, pg, s, rates, ps, e) ==
  CASE pass = "crypto" -> CryptoStep(pg, s, rates, ps, e)
    [] pass = "semantic" -> SemanticStep(pg, s, rates, ps, e)
    [] pass = "structured" -> StructuredStep(pg, s, rates, ps, e)
    [] pass = "meta" -> MetaStep(pg, s, rates, ps, e)
    [] pass = "selector" -> SelectorStep(pg, s, rates, ps, e)
    [] OTHER -> WalkerStep(pg, s, rates, ps, e)

\* the for loop of one pass, in document order, from element e on
RECURSIVE RunFrom(_, _, _, _, _, _)
RunFrom(pass, pg, s, rates, ps, e) ==
  IF e > NumElems \/ ps.thrown \/ ps.stop THEN ps
  ELSE RunFrom(pass, pg, s, rates,
               IF Selects(pass, pg, ps, e) THEN Step(pass, pg, s, rates, ps, e) ELSE ps,
               e + 1)

\* what a guarded pass hands back to the scan: the counters of a pass that
\* raised are lost, what it wrote to the DOM stays
PassResult(st, r) ==
  [st EXCEPT !.dom = r.dom, !.proc = r.proc,
             !.converted = @ + (IF r.thrown THEN 0 ELSE r.converted),
             !.skipped = @ + (IF r.thrown THEN 0 ELSE r.skipped)]

\* safeExecutePass(passName, passFunction)
SafeExecutePass(pass, pg, s, rates, st) ==
  IF pass = "crypto" /\ \A c \in CryptoCodes : Rate(rates, c) = 0 THEN st
  ELSE PassResult(st, RunFrom(pass, pg, s, rates, PassState(st.dom, st.proc, 0, 0), 1))

RECURSIVE SafePassesFrom(_, _, _, _, _)
SafePassesFrom(i, pg, s, rates, st) ==
  IF i > Len(SafePasses) THEN st
  ELSE SafePassesFrom(i + 1, pg, s, rates,
                      SafeExecutePass(SafePasses[i], pg, s, rates, st))

\* the first WalkerNodeLimit accepted text nodes, in document order
WalkerNodeLimit == 100
CollectNodes(pg, ps) ==
  LET acc == {e \in Elems : WalkerAccepts(pg, ps, e)}
  IN {e \in acc : Cardinality({x \in acc : x < e}) < WalkerNodeLimit}

\* strategy 2 of convertPrices, reached when pass 14 neither raised nor hit
\* the conversion limit: the TreeWalker collection and the text node loop
WalkerPass(pg, s, rates, s14) ==
  IF s14.thrown \/ s14.converted >= ConversionLimit THEN s14
  ELSE RunFrom("walker", pg, s, rates,
               [s14 EXCEPT !.stop = FALSE, !.nodes = CollectNodes(pg, s14)], 1)

\* convertPrices(): the whole synchronous scan
ConvertPrices(pg, d, proc, s, rates) ==
  WalkerPass(pg, s, rates,
             RunFrom("selector", pg, s, rates,
                     SafePassesFrom(1, pg, s, rates, PassState(d, proc, 0, 0)), 1))

\* the same page with no element that makes a detector raise
NoThrow(pg) ==
  [pg EXCEPT !.kinds = [e \in Elems |-> [pg.kinds[e] EXCEPT !.throwsIn = "none"]]]

\* ------------------------------------------------------------ initial state
\* the character-level view is not in use
NoDetail == [phase |-> "off"]
\* no right-click yet; clicked is the price element of the latest right-click,
\* which the program does not keep when it keeps the older entry
NoClick == [el |-> NoElem, src |-> Undefined, amt |-> NaN, clicked |-> NoElem]
NoScan ==
  [ran |-> FALSE, target |-> NoCurrency, norates |-> FALSE, converted |-> 0, thrown |-> FALSE, missed |-> {}, repeat |-> FALSE,
   changed |-> FALSE, settled |-> FALSE, replace |-> FALSE]

Init ==
  /\ page \in Pages
  /\ dom = [e \in Elems |-> FreshElement(page.kinds[e])]
  /\ processedElements = {}
  /\ settings = DefaultSettings
  /\ stored = DefaultSettings
  /\ exchangeRates = BuiltinRates
  /\ pc = "settings"
  /\ timers = {}
  /\ pendingLoads = 0
  /\ pendingPos = {}
  /\ lastClickedPrice = NoClick
  /\ lastScan = NoScan
  /\ events = 0
  /\ detail = NoDetail

\* an element the user can point at: attached, with visible price text
Clickable(e) == dom[e].attached /\ "walker" \in page.kinds[e].passes
Touched == [lastScan EXCEPT !.settled = FALSE]

\* loadSettings() after the await: every field of settings is assigned from
\* what chrome.storage.sync.get returned.  The storage answers its reads in
\* the order they were issued, so a load never delivers an older value after
\* a newer one.
LoadSettingsKeepsTarget(result) ==
  [target |-> DefaultSettings.target, replacePrice |-> result.replacePrice,
   showInline |-> result.showInline]
LoadSettings(result) ==
  [target |-> result.target, replacePrice |-> result.replacePrice,
   showInline |-> result.showInline]

\* ------------------------------------------------------------------ init()
\* await loadSettings()
InitLoadSettingsDone ==
  /\ pc = "settings"
  /\ settings' = LoadSettings(stored)
  /\ pc' = "rates"
  /\ UNCHANGED <<detail, page, dom, processedElements, stored, exchangeRates, timers,
                 pendingLoads, pendingPos, lastClickedPrice, lastScan, events>>

\* what chrome.runtime.sendMessage({type: 'getExchangeRates'}) can yield: no
\* answer, or the table the background holds
Replies == {"none", "live", "empty"}
ReplyTable(r) == IF r = "live" THEN LiveRates ELSE EmptyRates

\* loadRates()
LoadRates(rates, r) == IF r = "none" THEN rates ELSE ReplyTable(r)

\* await loadRates(); setTimeout(convertPrices, 1000); observer and scroll
\* listener set up
InitLoadRatesDone ==
  /\ pc = "rates"
  /\ \E r \in Replies : exchangeRates' = LoadRates(exchangeRates, r)
  /\ pc' = "ready"
  /\ timers' = timers \cup {"init"}
  /\ UNCHANGED <<detail, page, dom, processedElements, settings, stored, pendingLoads,
                 pendingPos, lastClickedPrice, lastScan, events>>

\* --------------------------------------------------------- running a scan
ScanOutcome(r) ==
  [ran |-> TRUE, target |-> settings.target,
   norates |-> (exchangeRates = EmptyRates),
   converted |-> r.converted, thrown |-> r.thrown,
   missed |-> IF r.thrown
                THEN LET clean == ConvertPrices(NoThrow(page), dom, processedElements,
                                                settings, exchangeRates)
                     IN {e \in Elems : /\ page.kinds[e].throwsIn = "none"
                                       /\ clean.dom[e].dsConverted
                                       /\ ~r.dom[e].dsConverted}
                ELSE {},
   repeat |-> lastScan.settled,
   changed |-> (r.dom # dom \/ r.proc # processedElements),
   settled |-> TRUE,
   replace |-> settings.replacePrice]

RunScan ==
  \E r \in {ConvertPrices(page, dom, processedElements, settings, exchangeRates)} :
     /\ dom' = r.dom
     /\ processedElements' = r.proc
     /\ lastScan' = ScanOutcome(r)

\* a setTimeout(convertPrices, ...) callback runs
TimerFires ==
  /\ \E t \in timers \ {"throttle"} :
        /\ RunScan
        /\ timers' = timers \ {t}
  /\ UNCHANGED <<detail, page, settings, stored, exchangeRates, pc, pendingLoads,
                 pendingPos, lastClickedPrice, events>>

\* throttle(): setTimeout(() => inThrottle = false, limit) runs
ThrottleEnds ==
  /\ "throttle" \in timers
  /\ timers' = timers \ {"throttle"}
  /\ UNCHANGED <<detail, page, dom, processedElements, settings, stored, exchangeRates,
                 pc, pendingLoads, pendingPos, lastClickedPrice, lastScan, events>>

\* a scroll event reaches throttle(convertPrices, 2000)
Scroll ==
  /\ pc = "ready" /\ events < MaxEvents
  /\ events' = events + 1
  /\ IF "throttle" \in timers
       THEN UNCHANGED <<dom, processedElements, lastScan, timers>>
       ELSE /\ RunScan
            \* a throw of func.apply skips inThrottle = true and the setTimeout
            /\ timers' = IF lastScan'.thrown THEN timers ELSE timers \cup {"throttle"}
  /\ UNCHANGED <<detail, page, settings, stored, exchangeRates, pc, pendingLoads,
                 pendingPos, lastClickedPrice>>

\* the MutationObserver callback saw added nodes with price content:
\* debounce(convertPrices, 500) restarts its timer
Mutation ==
  /\ pc = "ready" /\ events < MaxEvents
  /\ events' = events + 1
  /\ timers' = timers \cup {"mutation"}
  /\ UNCHANGED <<detail, page, dom, processedElements, settings, stored, exchangeRates,
                 pc, pendingLoads, pendingPos, lastClickedPrice, lastScan>>

\* ---------------------------------------------------------------- settings
\* the options page saves: chrome.storage.sync.set(settings), then the
\* settingsUpdated message starts loadSettings() in the content script
SaveSettings ==
  /\ events < MaxEvents
  /\ events' = events + 1
  /\ \E s \in StoredChoices : stored' = s
  /\ pendingLoads' = pendingLoads + 1
  /\ UNCHANGED <<detail, page, dom, processedElements, settings, exchangeRates, pc,
                 timers, pendingPos, lastClickedPrice, lastScan>>

\* loadSettings() reads the storage, then: conversionCache.clear();
\* setTimeout(convertPrices, 500)
SettingsLoadDone ==
  /\ pendingLoads > 0
  /\ settings' = LoadSettings(stored)
  /\ pendingLoads' = pendingLoads - 1
  /\ timers' = timers \cup {"settings"}
  /\ lastScan' = Touched
  /\ UNCHANGED <<detail, page, dom, processedElements, stored, exchangeRates, pc,
                 pendingPos, lastClickedPrice, events>>

\* ------------------------------------------- findAndConvertPriceAtPosition
HasPrice(e) ==
  \/ dom[e].dsOrig \/ dom[e].dsConverted
  \/ TextOf(page, dom, e).cur # NoCurrency /\ TextOf(page, dom, e).val > 0

\* the walk up from the element under the cursor
PriceElementAt(e) ==
  IF HasPrice(e) THEN e
  ELSE IF page.parent[e] # NoElem /\ HasPrice(page.parent[e]) THEN page.parent[e]
  ELSE NoElem

\* the synchronous half: find the price element, read currency and amount
\* from its text, ask the background for the rates
PositionMessage ==
  /\ events < MaxEvents
  /\ events' = events + 1
  /\ \E e \in Elems :
        /\ Clickable(e)
        /\ LET pe == PriceElementAt(e)
               t == TextOf(page, dom, pe)
           IN IF pe = NoElem \/ t.cur = NoCurrency \/ t.val <= 0
                THEN UNCHANGED pendingPos
                ELSE pendingPos' = pendingPos \cup {[el |-> pe, src |-> t.cur, amt |-> t.val]}
  /\ UNCHANGED <<detail, page, dom, processedElements, settings, stored, exchangeRates,
                 pc, timers, pendingLoads, lastClickedPrice, lastScan>>

\* (a * t) \div s, computed so that no intermediate value exceeds the result
\* by more than a factor s
MulDiv(a, t, s) == (a \div s) * t + ((a % s) * t) \div s

\* the callback of sendMessage({type: 'getExchangeRates'})
PositionConvert(d, p, rates, s) ==
  LET conv == MulDiv(p.amt, Rate(rates, s.target), Rate(rates, p.src))
      txt == GenerateConvertedText(conv, s.target)
      d1 == [d EXCEPT ![p.el].dsOrig = TRUE, ![p.el].dsConverted = TRUE,
                      ![p.el].dsSrc = p.src, ![p.el].dsAmt = p.amt,
                      ![p.el].dsText = txt, ![p.el].title = "orig",
                      ![p.el].nconv = Bump(d[p.el].nconv), ![p.el].by = "position",
                      ![p.el].from = p.src, ![p.el].to = s.target]
  IN SetText(page, d1, p.el, "replaced", txt)

PositionReply ==
  /\ \E p \in pendingPos, r \in Replies :
        /\ pendingPos' = pendingPos \ {p}
        /\ IF \/ r = "none"
              \/ Rate(ReplyTable(r), p.src) = 0
              \/ Rate(ReplyTable(r), settings.target) = 0
             THEN UNCHANGED <<dom, processedElements, lastScan>>
             ELSE /\ dom' = PositionConvert(dom, p, ReplyTable(r), settings)
                  /\ processedElements' = processedElements \cup {p.el}
                  /\ lastScan' = Touched
  /\ UNCHANGED <<detail, page, settings, stored, exchangeRates, pc, timers, pendingLoads,
                 lastClickedPrice, events>>

\* ---------------------------------------------------- the detected-price menu
Contains(a, b) == a = b \/ (a # NoElem /\ page.parent[b] = a)

\* the container the contextmenu listener prefers over a short element
PriceContainer(e) ==
  LET q == page.parent[e]
  IN IF q # NoElem /\ dom[e].attached /\ page.kinds[q].extra THEN q ELSE e

\* the listener setupPriceContextMenu installed runs on a right-click; recent
\* tells whether the stored click is less than a second old
PriceContextMenu ==
  /\ events < MaxEvents
  /\ events' = events + 1
  /\ \E e \in Elems, recent \in BOOLEAN :
        /\ Clickable(e) /\ dom[e].menu
        /\ LET tgt == PriceContainer(e)
               shouldStore == \/ lastClickedPrice.el = NoElem
                              \/ ~recent
                              \/ Contains(lastClickedPrice.el, tgt)
           IN lastClickedPrice' =
                IF shouldStore
                  THEN [el |-> tgt, src |-> dom[tgt].dsSrc, amt |-> dom[tgt].dsAmt,
                        clicked |-> tgt]
                  ELSE [lastClickedPrice EXCEPT !.clicked = tgt]
  /\ UNCHANGED <<detail, page, dom, processedElements, settings, stored, exchangeRates,
                 pc, timers, pendingLoads, pendingPos, lastScan>>

\* convertClickedPrice(): the text node that holds the price is the child's
\* when the element has text around a child (surgical replacement), its own
\* otherwise (full replacement)
ClickedConvert(d, lcp, rates, s) ==
  LET el == lcp.el
      txt == IF d[el].dsText # NoText THEN d[el].dsText
             ELSE GenerateConvertedText(
                    UncheckedConversion(lcp.amt, lcp.src, s.target, rates), s.target)
      c == ChildOf(page, d, el)
      w == IF c # NoElem THEN c ELSE el
      d1 == [d EXCEPT ![el].replacedOriginal = TRUE, ![el].title = "orig",
                      ![el].replacedNow = TRUE]
      d2 == [d1 EXCEPT ![w].nconv = Bump(d[w].nconv), ![w].by = "click",
                       ![w].from = lcp.src, ![w].to = txt.cur]
  IN SetText(page, d2, w, "replaced", txt)

ConvertClickedPrice ==
  /\ events < MaxEvents
  /\ events' = events + 1
  /\ lastClickedPrice.el # NoElem
  /\ IF lastClickedPrice.src = settings.target
       THEN UNCHANGED <<dom, lastScan>>
       ELSE /\ dom' = ClickedConvert(dom, lastClickedPrice, exchangeRates, settings)
            /\ lastScan' = Touched
  /\ UNCHANGED <<detail, page, processedElements, settings, stored, exchangeRates, pc,
                 timers, pendingLoads, pendingPos, lastClickedPrice>>

\* ------------------------------------------------------------ specification
Next ==
  \/ InitLoadSettingsDone
  \/ InitLoadRatesDone
  \/ TimerFires
  \/ ThrottleEnds
  \/ Scroll
  \/ Mutation
  \/ SaveSettings
  \/ SettingsLoadDone
  \/ PositionMessage
  \/ PositionReply
  \/ PriceContextMenu
  \/ ConvertClickedPrice

Spec == Init /\ [][Next]_vars

\* ============================================== the clicked price, by character
\* A text is a sequence of characters, each a one-character string; the sign
\* of the shekel and of the euro are written out, being outside ASCII.
ShekelSign == "ILS-sign"
EuroSign == "EUR-sign"
Digit == <<"0", "1", "2", "3", "4", "5", "6", "7", "8", "9">>

IsDigit(c) == \E i \in 1..Len(Digit) : Digit[i] = c
DigitValue(c) == (CHOOSE i \in 1..Len(Digit) : Digit[i] = c) - 1
\* \s
IsSpace(c) == c \in {" ", "\n"}
\* [\$...] of the price patterns, as far as the alphabet goes
IsSymbol(c) == c \in {"$", ShekelSign, EuroSign}

Max(a, b) == IF a > b THEN a ELSE b
Clamp(t, i) == Max(0, Min(i, Len(t)))

\* String.prototype.substring(a, b), indices from 0
Substring(t, a, b) ==
  SubSeq(t, Clamp(t, Min(a, b)) + 1, Clamp(t, Max(a, b)))
SubstringFrom(t, a) == Substring(t, a, Len(t))

StartsAt(t, p, i) ==
  i >= 0 /\ i + Len(p) <= Len(t) /\ SubSeq(t, i + 1, i + Len(p)) = p

\* String.prototype.indexOf(p)
IndexOf(t, p) ==
  IF \E i \in 0..Len(t) : StartsAt(t, p, i)
    THEN CHOOSE i \in 0..Len(t) :
           StartsAt(t, p, i) /\ \A j \in 0..(i - 1) : ~StartsAt(t, p, j)
    ELSE -1

\* String.prototype.includes(p)
Includes(t, p) == IndexOf(t, p) # -1

\* String.prototype.replace(p, r) with a string pattern: the first occurrence
Replace(t, p, r) ==
  LET i == IndexOf(t, p)
  IN IF i = -1 THEN t ELSE Substring(t, 0, i) \o r \o SubstringFrom(t, i + Len(p))

\* String.prototype.replaceAll(p, r), p not empty
RECURSIVE ReplaceAll(_, _, _)
ReplaceAll(t, p, r) ==
  LET i == IndexOf(t, p)
  IN IF i = -1 \/ p = <<>> THEN t
     ELSE Substring(t, 0, i) \o r \o ReplaceAll(SubstringFrom(t, i + Len(p)), p, r)

RECURSIVE TrimStart(_)
TrimStart(t) == IF t # <<>> /\ IsSpace(Head(t)) THEN TrimStart(Tail(t)) ELSE t
RECURSIVE TrimEnd(_)
TrimEnd(t) ==
  IF t # <<>> /\ IsSpace(t[Len(t)]) THEN TrimEnd(SubSeq(t, 1, Len(t) - 1)) ELSE t
\* String.prototype.trim()
Trim(t) == TrimEnd(TrimStart(t))

\* .replace(/\s+/g, ' ')
RECURSIVE CollapseSpaces(_)
CollapseSpaces(t) ==
  IF t = <<>> THEN <<>>
  ELSE IF IsSpace(Head(t)) THEN <<" ">> \o CollapseSpaces(TrimStart(t))
  ELSE <<Head(t)>> \o CollapseSpaces(Tail(t))

\* the leading words normalizePriceText strips: only, from, just
PricePrefixes ==
  {<<"o", "n", "l", "y", " ">>, <<"f", "r", "o", "m", " ">>,
   <<"j", "u", "s", "t", " ">>}

\* normalizePriceText(text)
NormalizePriceText(t) ==
  LET n == Trim(CollapseSpaces(t))
  IN IF \E p \in PricePrefixes : StartsAt(n, p, 0)
       THEN LET p == CHOOSE q \in PricePrefixes : StartsAt(n, q, 0)
            IN TrimStart(SubstringFrom(n, Len(p)))
       ELSE n

\* ------------------------------------------------------- the price patterns
\* The alphabet has no currency codes and no country prefixes, so of each
\* pattern remain: the symbol, \s*, the digits, the groups of thousands and
\* the decimals.  A pattern is given by whether the symbol is required, how
\* many leading digits it takes (0: any number), the separators of its
\* groups of three digits and whether it takes decimals.
UniversalPattern == [symbol |-> "optional", digits |-> 3, groups |-> {",", "."}, decimals |-> TRUE]
SymbolAmountPattern == [symbol |-> "required", digits |-> 0, groups |-> {}, decimals |-> FALSE]
TextPricePattern == [symbol |-> "required", digits |-> 0, groups |-> {}, decimals |-> TRUE]
OriginalPricePattern == [symbol |-> "required", digits |-> 3, groups |-> {",", ".", " ", "\n"}, decimals |-> TRUE]

At(t, i) == IF i >= 0 /\ i < Len(t) THEN t[i + 1] ELSE ""

RECURSIVE SkipSpaces(_, _)
SkipSpaces(t, i) == IF IsSpace(At(t, i)) THEN SkipSpaces(t, i + 1) ELSE i

\* the end of the run of at most max digits that starts at i (max 0: no limit)
RECURSIVE DigitsEnd(_, _, _, _)
DigitsEnd(t, i, taken, max) ==
  IF IsDigit(At(t, i)) /\ (max = 0 \/ taken < max)
    THEN DigitsEnd(t, i + 1, taken + 1, max)
    ELSE i

\* (?:[,.]\d{3})*
RECURSIVE GroupsEnd(_, _, _)
GroupsEnd(t, i, seps) ==
  IF At(t, i) \in seps /\ IsDigit(At(t, i + 1)) /\ IsDigit(At(t, i + 2))
       /\ IsDigit(At(t, i + 3))
    THEN GroupsEnd(t, i + 4, seps)
    ELSE i

\* (?:[.,]\d{1,2})?
DecimalsEnd(t, i) ==
  IF At(t, i) \in {".", ","} /\ IsDigit(At(t, i + 1))
    THEN DigitsEnd(t, i + 1, 0, 2)
    ELSE i

\* where a match of the pattern that starts at i ends, or -1
MatchEnd(t, i, pat) ==
  LET afterSymbol == IF IsSymbol(At(t, i)) THEN SkipSpaces(t, i + 1) ELSE -1
      start == IF afterSymbol # -1 /\ IsDigit(At(t, afterSymbol)) THEN afterSymbol
               ELSE IF pat.symbol = "optional" /\ IsDigit(At(t, i)) THEN i
               ELSE -1
      whole == GroupsEnd(t, DigitsEnd(t, start, 0, pat.digits), pat.groups)
  IN IF start = -1 THEN -1
     ELSE IF pat.decimals THEN DecimalsEnd(t, whole) ELSE whole

\* the matches of a global pattern from index i on, in order
RECURSIVE MatchesFrom(_, _, _)
MatchesFrom(t, i, pat) ==
  IF i >= Len(t) THEN <<>>
  ELSE LET e == MatchEnd(t, i, pat)
       IN IF e = -1 THEN MatchesFrom(t, i + 1, pat)
          ELSE <<[text |-> Substring(t, i, e), startIndex |-> i, endIndex |-> e]>>
                 \o MatchesFrom(t, e, pat)

Matches(t, pat) == MatchesFrom(t, 0, pat)

\* the number a run of digits writes
RECURSIVE Number(_)
Number(t) ==
  IF t = <<>> THEN 0 ELSE 10 * Number(SubSeq(t, 1, Len(t) - 1)) + DigitValue(t[Len(t)])

\* the digits that write a number
RECURSIVE Digits(_)
Digits(n) == IF n < 10 THEN <<Digit[n + 1]>> ELSE Digits(n \div 10) \o <<Digit[(n % 10) + 1]>>

\* Number.prototype.toFixed(2) of an amount held in hundredths
ToFixed2(cents) ==
  Digits(cents \div 100) \o <<".">> \o <<Digit[((cents \div 10) % 10) + 1]>>
    \o <<Digit[(cents % 10) + 1]>>

\* --------------------------------------------------------- the price element
\* The element is the sequence of its text nodes in document order; a text
\* node lies in the element itself or in its one child element (<b>, <sup>).
NoString == <<"undefined">>
NoHTML == <<>>
TextNode(t) == [text |-> t, inChild |-> FALSE]
ChildNode(t) == [text |-> t, inChild |-> TRUE]

\* element.textContent
RECURSIVE TextContent(_)
TextContent(nodes) ==
  IF nodes = <<>> THEN <<>> ELSE Head(nodes).text \o TextContent(Tail(nodes))

\* element.children.length
Children(nodes) == Cardinality({i \in 1..Len(nodes) : nodes[i].inChild})
\* where the i-th text node starts in the text of the element
NodeStart(nodes, i) == Len(TextContent(SubSeq(nodes, 1, i - 1)))

NoDataset ==
  [converted |-> FALSE, originalPrice |-> NoString, sourceCurrency |-> Undefined,
   sourceAmount |-> NaN, convertedText |-> NoString, replacedOriginal |-> NoString,
   replacedOriginalHTML |-> NoHTML, replacedNow |-> FALSE]

NoTitle == [kind |-> "none", text |-> <<>>]

\* cls is the class attribute: "price" or none
FreshPriceElement(cls, nodes) ==
  [cls |-> cls, nodes |-> nodes, title |-> NoTitle, dataset |-> NoDataset,
   menu |-> FALSE]

\* the pieces the layouts are made of
Save == <<"S", "a", "v", "e", " ">>
Only == <<"o", "n", "l", "y", " ">>
Price5 == <<"$", "5">>
Price10 == <<"$", "1", "0">>
Price50 == <<"$", "5", "0">>
Orders == <<"o", "r", "d", "e", "r", "s">>
Over == <<" ", "o", "v", "e", "r", " ">>
NoMiddle == [on |-> <<>>, word |-> <<>>, over |-> <<>>, second |-> <<>>]
\* " on orders over $50", in one line or broken after "on"
Middles ==
  {NoMiddle,
   [on |-> <<" ", "o", "n", " ">>, word |-> Orders, over |-> Over, second |-> Price50],
   [on |-> <<" ", "o", "n", "\n", " ">>, word |-> Orders, over |-> Over,
    second |-> Price50]}

NonEmpty(nodes) == SelectSeq(nodes, LAMBDA n : n.text # <<>>)

\* <p>Save $10 on orders over $50</p> and its variants: with "only" or
\* nothing in front, $5 instead of $10, a line break in the sentence, and the
\* first price, its symbol or the word "orders" in a child element; a price
\* alone is <div class="price">$10</div>
LayoutNodes(pre, first, mid, wrap) ==
  LET rest == mid.on \o mid.word \o mid.over \o mid.second
  IN CASE wrap = "none" -> <<TextNode(pre \o first \o rest)>>
       [] wrap = "first" -> NonEmpty(<<TextNode(pre), ChildNode(first), TextNode(rest)>>)
       [] wrap = "symbol" ->
            NonEmpty(<<TextNode(pre), ChildNode(<<Head(first)>>),
                       TextNode(Tail(first) \o rest)>>)
       [] wrap = "word" ->
            NonEmpty(<<TextNode(pre \o first \o mid.on), ChildNode(mid.word),
                       TextNode(mid.over \o mid.second)>>)

Layouts ==
  {FreshPriceElement(IF pre = <<>> /\ mid = NoMiddle THEN "price" ELSE "",
                     LayoutNodes(pre, first, mid, wrap)) :
     pre \in {<<>>, Save, Only}, first \in {Price5, Price10}, mid \in Middles,
     wrap \in {"none", "first", "symbol", "word"}}

HasSymbol(t) == \E i \in 1..Len(t) : IsSymbol(t[i])
HasDigit(t) == \E i \in 1..Len(t) : IsDigit(t[i])
IsUpper(c) == c \in {"U", "S"}

\* getAllText(el) of extractFragmentedPrice: the trimmed text nodes joined,
\* with a space put between a code or symbol and what follows it
RECURSIVE GetAllText(_, _)
GetAllText(nodes, text) ==
  IF nodes = <<>> THEN Trim(text)
  ELSE LET trimmed == Trim(Head(nodes).text)
           n == Len(text)
           spaced == /\ trimmed # <<>> /\ text # <<>> /\ ~IsSpace(text[n])
                     /\ \/ /\ n >= 2 /\ IsUpper(text[n]) /\ IsUpper(text[n - 1])
                           /\ (IsSymbol(Head(trimmed)) \/ IsDigit(Head(trimmed)))
                        \/ IsSymbol(text[n]) /\ IsDigit(Head(trimmed))
       IN GetAllText(Tail(nodes), (IF spaced THEN text \o <<" ">> ELSE text) \o trimmed)

\* extractFragmentedPrice(element) for an element with fewer than two
\* span, b, strong or em descendants and a complete price in its text
ExtractFragmentedPrice(nodes) == NormalizePriceText(GetAllText(nodes, <<>>))

\* ------------------------------------------------- the scan on the element
\* getCurrencySymbol(currency)
CurrencySymbol(c) ==
  CASE c = "ILS" -> ShekelSign [] c = "EUR" -> EuroSign [] OTHER -> "$"

CodeChars(c) ==
  CASE c = "ILS" -> <<"I", "L", "S">> [] c = "EUR" -> <<"E", "U", "R">>
    [] c = "USD" -> <<"U", "S", "D">> [] OTHER -> <<>>

\* detectCurrency(text) on a text whose only currency marks are symbols
DetectCurrencyOf(t) ==
  IF Includes(t, <<"$">>) THEN "USD"
  ELSE IF Includes(t, <<ShekelSign>>) THEN "ILS"
  ELSE IF Includes(t, <<EuroSign>>) THEN "EUR"
  ELSE NoCurrency

\* extractAmount(text, currency): the number of the first symbol-and-amount
\* match, 0 when there is none; the prices of the page are whole numbers
ExtractAmountOf(t) ==
  LET ms == Matches(t, OriginalPricePattern)
      from == SkipSpaces(ms[1].text, 1)
  IN IF ms = <<>> THEN 0
     ELSE Number(Substring(ms[1].text, from, DigitsEnd(ms[1].text, from, 0, 0)))

\* extractAmount(text, currency, element): the reconstructed text of the
\* element is preferred when it is longer
ExtractAmount(t, nodes) ==
  LET text == NormalizePriceText(t)
      fragmentedText == ExtractFragmentedPrice(nodes)
  IN IF fragmentedText # <<>> /\ fragmentedText # text /\ Len(fragmentedText) > Len(text)
       THEN ExtractAmountOf(fragmentedText)
       ELSE ExtractAmountOf(text)

\* /[\$...]\s+\d/.test(text)
HasSpaceAfterSymbol(t) ==
  \E i \in 0..Len(t) :
     IsSymbol(At(t, i)) /\ IsSpace(At(t, i + 1)) /\ IsDigit(At(t, SkipSpaces(t, i + 1)))

\* generateConvertedText(originalPrice, convertedAmount, targetCurrency) for
\* a text without currency codes; the amount is held in hundredths
GenerateConvertedChars(originalPrice, cents, tgt) ==
  LET leadingSpace == Substring(originalPrice, 0,
                                Len(originalPrice) - Len(TrimStart(originalPrice)))
      trailingSpace == SubstringFrom(originalPrice, Len(TrimEnd(originalPrice)))
      spacer == IF HasSpaceAfterSymbol(Trim(originalPrice)) THEN <<" ">> ELSE <<>>
  IN leadingSpace \o <<CurrencySymbol(tgt)>> \o spacer \o ToFixed2(cents) \o trailingSpace

\* the two kinds of title the extension writes
ConvertedTitle(t) == [kind |-> "converted", text |-> t]
OriginalTitle(t) == [kind |-> "original", text |-> t]

\* applyConversion(element, amount, sourceCurrency, convertedAmount, target)
ApplyConversionChars(el, amount, src, cents, s) ==
  LET originalPrice == IF el.dataset.originalPrice = NoString
                         THEN TextContent(el.nodes) ELSE el.dataset.originalPrice
      convertedText == GenerateConvertedChars(originalPrice, cents, s.target)
      ds == [el.dataset EXCEPT !.originalPrice = originalPrice, !.converted = TRUE,
                               !.sourceCurrency = src, !.sourceAmount = amount,
                               !.convertedText = convertedText]
      e1 == [el EXCEPT !.dataset = ds, !.menu = TRUE]
  IN IF s.replacePrice
       THEN [e1 EXCEPT !.nodes = <<TextNode(convertedText)>>,
                       !.title = OriginalTitle(Trim(CollapseSpaces(originalPrice)))]
       ELSE IF s.showInline
         THEN [e1 EXCEPT !.title = ConvertedTitle(Trim(CollapseSpaces(convertedText))
                                                    \o <<" ">> \o CodeChars(s.target))]
         ELSE e1

\* the text nodes of the element itself the TreeWalker accepts
WalkerTexts(nodes) ==
  SelectSeq(nodes, LAMBDA n : ~n.inChild /\ HasSymbol(n.text) /\ HasDigit(n.text))

\* convertPrices() as far as it concerns the element: the selector pass takes
\* it by its class, the TreeWalker by the first of its own text nodes that
\* holds a price
ScanPriceElement(el, s, rates) ==
  LET text == IF el.cls = "price" THEN NormalizePriceText(TextContent(el.nodes))
              ELSE IF WalkerTexts(el.nodes) # <<>> THEN Trim(WalkerTexts(el.nodes)[1].text)
              ELSE <<>>
      src == DetectCurrencyOf(text)
      amount == ExtractAmount(text, el.nodes)
      cents == CalculateConversion(100 * amount, src, s.target, rates)
  IN IF \/ el.dataset.converted \/ text = <<>> \/ src = NoCurrency
        \/ src = s.target \/ BadAmount(amount) \/ cents = Null
       THEN el
       ELSE ApplyConversionChars(el, amount, src, cents, s)

\* ------------------------------------------------------ the right-click
\* findTextNodeContaining(element, text): the index of the node, 0 for null
FindTextNodeContaining(nodes, text) ==
  IF \E i \in 1..Len(nodes) : Includes(nodes[i].text, text)
    THEN CHOOSE i \in 1..Len(nodes) :
           /\ Includes(nodes[i].text, text)
           /\ \A j \in 1..(i - 1) : ~Includes(nodes[j].text, text)
    ELSE 0

\* Positions on the line are counted in half characters: the text is taken
\* to stand on one line in characters of one width.  The centre of the
\* Range detectClickedPrice lays over the first occurrence of a price text.
RangeCentre(nodes, price) ==
  LET n == FindTextNodeContaining(nodes, price.text)
  IN 2 * (NodeStart(nodes, n) + IndexOf(nodes[n].text, price.text)) + Len(price.text)

Distance(a, b) == IF a < b THEN b - a ELSE a - b

NoPrice == [text |-> NoString, startIndex |-> Null, endIndex |-> Null]

\* detectClickedPrice(element, event); click is where the pointer is
DetectClickedPrice(nodes, click) ==
  LET fragmentedText == ExtractFragmentedPrice(nodes)
      elementText == IF fragmentedText # <<>> THEN fragmentedText ELSE TextContent(nodes)
      allPrices == Matches(elementText, UniversalPattern)
      found == {i \in 1..Len(allPrices) :
                  FindTextNodeContaining(nodes, allPrices[i].text) # 0}
      dist(i) == Distance(click, RangeCentre(nodes, allPrices[i]))
  IN IF allPrices = <<>> THEN NoPrice
     ELSE IF Len(allPrices) = 1 THEN allPrices[1]
     ELSE IF found # {}
       THEN allPrices[CHOOSE i \in found :
                        \A j \in found : dist(i) < dist(j) \/ (dist(i) = dist(j) /\ i <= j)]
     ELSE allPrices[Len(allPrices)]

\* the prices the user sees in the element, with their place in its text
VisiblePrices(nodes) == Matches(TextContent(nodes), TextPricePattern)

\* the text node that holds the character at index i of the element's text
NodeAt(nodes, i) ==
  CHOOSE n \in 1..Len(nodes) :
    NodeStart(nodes, n) <= i /\ i < NodeStart(nodes, n) + Len(nodes[n].text)

\* A right-click on a price reaches the listener of the element unless the
\* price stands in a child that has a listener of its own and no price
\* container above it: the child of an element without the class "price"
\* that holds a whole price.
ReachesListener(el, price) ==
  LET n == NodeAt(el.nodes, price.startIndex)
  IN \/ ~el.nodes[n].inChild
     \/ el.cls = "price"
     \/ ~(HasSymbol(el.nodes[n].text) /\ HasDigit(el.nodes[n].text))

NoLastClicked ==
  [originalPrice |-> NoString, sourceCurrency |-> Undefined, sourceAmount |-> NaN,
   convertedText |-> NoString, clickedPriceText |-> NoString,
   clickedPriceStart |-> Null, clickedPriceEnd |-> Null, hasMultiplePrices |-> FALSE]

\* the contextmenu listener of setupPriceContextMenu: the element is its own
\* price container (the parent has more than 50 characters of text), and a
\* stored click on the same element is always replaced
StoreClickedPrice(el, price) ==
  LET info == DetectClickedPrice(el.nodes, 2 * price.startIndex + Len(price.text))
  IN [originalPrice |-> el.dataset.originalPrice,
      sourceCurrency |-> el.dataset.sourceCurrency,
      sourceAmount |-> el.dataset.sourceAmount,
      convertedText |-> el.dataset.convertedText,
      clickedPriceText |-> info.text,
      clickedPriceStart |-> info.startIndex,
      clickedPriceEnd |-> info.endIndex,
      hasMultiplePrices |-> Len(Matches(TextContent(el.nodes), SymbolAmountPattern)) > 1]

\* ------------------------------------------------------ convertClickedPrice
IsSingleTextNode(nodes) == Len(nodes) = 1 /\ ~nodes[1].inChild

\* the TreeWalker loops that replace a text in every text node holding it
ReplaceInAllNodes(nodes, p, r) ==
  [i \in 1..Len(nodes) |->
     IF Includes(nodes[i].text, p)
       THEN [nodes[i] EXCEPT !.text = ReplaceAll(nodes[i].text, p, r)]
       ELSE nodes[i]]

NodesHolding(nodes, p) == {i \in 1..Len(nodes) : Includes(nodes[i].text, p)}

\* the second TreeWalker of the multi-price path on one text node: a node
\* that is a bare symbol takes the target symbol, a node that is the clicked
\* amount takes the whole part of the converted amount
FragmentKind(t, clickedAmount, tgt) ==
  LET text == Trim(t)
  IN IF Includes(text, <<ShekelSign>>) \/ Includes(text, <<CurrencySymbol(tgt)>>)
       THEN "skip"
     ELSE IF text \in {<<"$">>, <<EuroSign>>} THEN "symbol"
     ELSE IF text = Digits(clickedAmount) THEN "whole"
     ELSE "other"

FragmentText(t, clickedAmount, cents, tgt) ==
  CASE FragmentKind(t, clickedAmount, tgt) = "symbol" ->
         Replace(t, Trim(t), <<CurrencySymbol(tgt)>>)
    [] FragmentKind(t, clickedAmount, tgt) = "whole" -> Digits(cents \div 100)
    [] OTHER -> t

ReplaceFragments(nodes, clickedAmount, cents, tgt) ==
  [i \in 1..Len(nodes) |->
     [nodes[i] EXCEPT !.text = FragmentText(@, clickedAmount, cents, tgt)]]

FragmentsReplaced(nodes, clickedAmount, tgt) ==
  Cardinality({i \in 1..Len(nodes) :
                 FragmentKind(nodes[i].text, clickedAmount, tgt) \in {"symbol", "whole"}})

\* the multi-price path; textContent is the trimmed text of the element
MultiPriceNodes(nodes, textContent, lcp, clickedAmount, cents, tgt) ==
  LET clicked == lcp.clickedPriceText
      specificConvertedText == GenerateConvertedChars(clicked, cents, tgt)
      newText == Substring(textContent, 0, lcp.clickedPriceStart)
                   \o specificConvertedText
                   \o SubstringFrom(textContent, lcp.clickedPriceEnd)
      replacementCount == Cardinality(NodesHolding(nodes, clicked))
      walked == ReplaceInAllNodes(nodes, clicked, specificConvertedText)
      handled == replacementCount < 2 /\ Len(nodes) > 2
      fragments == IF handled THEN ReplaceFragments(walked, clickedAmount, cents, tgt)
                   ELSE walked
      replaced == \/ replacementCount > 0
                  \/ handled /\ FragmentsReplaced(walked, clickedAmount, tgt) > 0
  IN IF IsSingleTextNode(nodes) THEN <<TextNode(newText)>>
     ELSE IF replaced THEN fragments
     ELSE <<TextNode(newText)>>

\* the surgical path: priceToReplace is replaced wherever it occurs
SurgicalNodes(nodes, textContent, priceToReplace, convertedText) ==
  LET newText == ReplaceAll(textContent, priceToReplace, convertedText)
  IN IF IsSingleTextNode(nodes) THEN <<TextNode(newText)>>
     ELSE IF NodesHolding(nodes, priceToReplace) # {}
       THEN ReplaceInAllNodes(nodes, priceToReplace, convertedText)
     ELSE <<TextNode(newText)>>

\* replaceOnlyPriceInTextNodes(element): the first text node that holds the
\* price has its first occurrence replaced
ReplaceInFirstNode(nodes, p, r) ==
  LET n == FindTextNodeContaining(nodes, p)
  IN [nodes EXCEPT ![n].text = Replace(@, p, r)]

\* where the last-resort pattern, a symbol, \s* and the source amount,
\* matches at index i of the text: the end of the match, or -1
LastResortEnd(t, i, amount) ==
  LET j == SkipSpaces(t, i + 1)
  IN IF IsSymbol(At(t, i)) /\ StartsAt(t, Digits(amount), j)
       THEN j + Len(Digits(amount)) ELSE -1

\* text.replace(lastResortRegex, r) from index i on
RECURSIVE LastResortReplace(_, _, _, _)
LastResortReplace(t, i, amount, r) ==
  IF i >= Len(t) THEN <<>>
  ELSE LET e == LastResortEnd(t, i, amount)
       IN IF e = -1 THEN <<t[i + 1]>> \o LastResortReplace(t, i + 1, amount, r)
          ELSE r \o LastResortReplace(t, e, amount, r)

LastResortMatches(t, amount) == \E i \in 0..Len(t) : LastResortEnd(t, i, amount) # -1

\* the last TreeWalker: the first text node the pattern matches is rewritten
LastResortNodes(nodes, amount, r) ==
  IF \E i \in 1..Len(nodes) : LastResortMatches(nodes[i].text, amount)
    THEN LET n == CHOOSE i \in 1..Len(nodes) :
                    /\ LastResortMatches(nodes[i].text, amount)
                    /\ \A j \in 1..(i - 1) : ~LastResortMatches(nodes[j].text, amount)
         IN [nodes EXCEPT ![n].text = LastResortReplace(@, 0, amount, r)]
    ELSE nodes

LargeTextLimit == 100
SimplePriceLimit == 50

\* convertClickedPrice() on the element the listener stored.  The element
\* carries dataset.convertedText, as applyConversion installed the listener,
\* and has at most one child, so it never counts as a fragmented price.  The
\* result tells whether any text was replaced.
ConvertClicked(el, lcp, s, rates) ==
  LET nodes == el.nodes
      originalPrice == lcp.originalPrice
      convertedText == el.dataset.convertedText
      ds == IF el.dataset.replacedOriginal = NoString
              THEN [el.dataset EXCEPT !.replacedOriginal = originalPrice,
                                      !.replacedOriginalHTML = nodes]
              ELSE el.dataset
      kept == [el EXCEPT !.dataset = ds]
      marked(t) == [kept EXCEPT !.title = OriginalTitle(Trim(CollapseSpaces(t))),
                                !.dataset.replacedNow = TRUE]
      textContent == Trim(TextContent(nodes))
      clicked == lcp.clickedPriceText
      clickedCurrency == DetectCurrencyOf(clicked)
      clickedAmount == ExtractAmountOf(NormalizePriceText(clicked))
      cents == CalculateConversion(100 * clickedAmount, clickedCurrency, s.target, rates)
      allPrices == Matches(textContent, TextPricePattern)
      totalPriceLength == Len(TextContent(allPrices))
      hasAdditionalText == Len(Trim(CollapseSpaces(textContent))) - totalPriceLength > 1
      priceToReplace ==
        IF clicked # NoString /\ Includes(textContent, clicked) THEN clicked
        ELSE IF allPrices # <<>> THEN allPrices[1].text
        ELSE originalPrice
      isSimplePrice == /\ ~hasAdditionalText /\ Children(nodes) = 0
                       /\ Len(nodes) <= 2 /\ Len(textContent) < SimplePriceLimit
      matches == Matches(originalPrice, OriginalPricePattern)
      pattern == matches[1].text
      done(e, located) == [el |-> e, located |-> located]
  IN IF Len(textContent) > LargeTextLimit \/ lcp.sourceCurrency = s.target
       THEN done(el, FALSE)
     ELSE IF /\ lcp.hasMultiplePrices /\ clicked # NoString
             /\ clickedAmount # 0 /\ clickedCurrency # NoCurrency
       THEN IF cents = Null THEN done(kept, FALSE)
            ELSE done([marked(textContent) EXCEPT !.nodes =
                         MultiPriceNodes(nodes, textContent, lcp, clickedAmount, cents,
                                         s.target)], TRUE)
     ELSE IF hasAdditionalText /\ Includes(textContent, priceToReplace)
       THEN done([marked(textContent) EXCEPT !.nodes =
                    SurgicalNodes(nodes, textContent, priceToReplace, convertedText)],
                 TRUE)
     ELSE IF isSimplePrice
       THEN done([marked(originalPrice) EXCEPT !.nodes = <<ChildNode(convertedText)>>],
                 TRUE)
     ELSE IF matches = <<>> THEN done(kept, FALSE)
     ELSE IF FindTextNodeContaining(nodes, pattern) # 0
       THEN done([marked(originalPrice) EXCEPT !.nodes =
                    ReplaceInFirstNode(nodes, pattern, convertedText)], TRUE)
     ELSE IF Children(nodes) = 0 /\ Trim(TextContent(nodes)) = originalPrice
       THEN done([marked(originalPrice) EXCEPT !.nodes = <<ChildNode(convertedText)>>],
                 TRUE)
     ELSE LET last == LastResortNodes(nodes, lcp.sourceAmount, convertedText)
          IN done([marked(originalPrice) EXCEPT !.nodes = last], last # nodes)

\* ------------------------------------ the specification of the clicked price
scanVars == <<page, dom, processedElements, settings, stored, exchangeRates, pc,
              timers, pendingLoads, pendingPos, lastClickedPrice, lastScan, events>>

\* init() has finished and its first scan is due; the page holds the element
InitClick ==
  /\ page \in {pg \in FlatPages : pg.kinds[1] = KPrice}
  /\ dom = [e \in Elems |-> FreshElement(page.kinds[e])]
  /\ processedElements = {}
  /\ settings \in StoredChoices
  /\ stored = settings
  /\ exchangeRates \in {BuiltinRates, LiveRates}
  /\ pc = "ready"
  /\ timers = {"init"}
  /\ pendingLoads = 0
  /\ pendingPos = {}
  /\ lastClickedPrice = NoClick
  /\ lastScan = NoScan
  /\ events = 0
  /\ \E l \in Layouts :
        detail = [phase |-> "page", el |-> l, lcp |-> NoLastClicked, target |-> NoPrice,
                  before |-> l, located |-> FALSE, rescan |-> FALSE]

\* convertPrices() reaches the element
ClickScan ==
  /\ detail.phase = "page"
  /\ detail' = [detail EXCEPT !.phase = "scanned",
                              !.el = ScanPriceElement(@, settings, exchangeRates)]
  /\ UNCHANGED scanVars

\* the user right-clicks one of the prices of the element
ClickContextMenu ==
  /\ detail.phase \in {"scanned", "stored"}
  /\ detail.el.menu
  /\ \E i \in 1..Len(VisiblePrices(detail.el.nodes)) :
        LET price == VisiblePrices(detail.el.nodes)[i]
        IN /\ ReachesListener(detail.el, price)
           /\ detail' = [detail EXCEPT !.phase = "stored",
                                       !.lcp = StoreClickedPrice(detail.el, price),
                                       !.target = price]
  /\ UNCHANGED scanVars

\* the MutationObserver callback after a write of the extension: a child
\* element came into being and its text holds a currency sign, so shouldConvert
\* is set and debouncedConvert() is called
ObserverSees(before, after) ==
  /\ Children(after) > Children(before)
  /\ \E i \in 1..Len(after) : after[i].inChild /\ HasSymbol(after[i].text)

\* the menu entry is chosen: convertClickedPrice()
ClickConvert ==
  /\ detail.phase = "stored"
  /\ \E r \in {ConvertClicked(detail.el, detail.lcp, settings, exchangeRates)} :
        detail' = [detail EXCEPT !.phase = "done", !.el = r.el,
                                 !.before = detail.el, !.located = r.located,
                                 !.rescan = ObserverSees(detail.el.nodes, r.el.nodes)]
  /\ UNCHANGED scanVars

\* the callback of debouncedConvert() runs convertPrices()
ClickRescan ==
  /\ detail.phase = "done" /\ detail.rescan
  /\ detail' = [detail EXCEPT !.rescan = FALSE,
                              !.el = ScanPriceElement(@, settings, exchangeRates)]
  /\ UNCHANGED scanVars

NextClick ==
  \/ ClickScan
  \/ ClickContextMenu
  \/ ClickConvert
  \/ ClickRescan

SpecClick == InitClick /\ [][NextClick]_vars

\* ============================================== one scan of a large page, counted
\* A page too large to hold element by element is described by four lists of
\* convertible prices, each in document order: elements with a data-price
\* attribute (pass 2), styled spans (pass 8), selector matches (pass 14) and
\* text nodes no selector matches (TreeWalker).  Every loop converts in
\* document order, so the converted elements of a list are its first ones.
ElementCeiling == 500
ListNames == {"attr", "styled", "sel", "text"}

\* the lengths a list of the page starts with
ListSizes(l) ==
  CASE l = "attr" -> {0, 1, ConversionLimit + 1, ElementCeiling + 1}
    [] l = "styled" -> {0, ElementCeiling + 1}
    [] OTHER -> {0, ConversionLimit + 1}

\* the counters of a loop: converted elements at the head of the list, the
\* converted counter the loop increments, the elements the loop has visited
LoopState(done, converted) ==
  [done |-> done, converted |-> converted, examined |-> 0, stop |-> FALSE]

\* the loop body on the element at position i; limited tells whether the
\* body ends with if (converted >= 100) break
CountBody(i, limited, st) ==
  IF i <= st.done THEN [st EXCEPT !.examined = @ + 1]
  ELSE [st EXCEPT !.examined = @ + 1, !.done = @ + 1, !.converted = @ + 1,
                  !.stop = (limited /\ st.converted + 1 >= ConversionLimit)]

\* for (const element of list), positions i to n in order; the positions are
\* run as a first and a second half to keep the evaluation shallow
RECURSIVE CountLoop(_, _, _, _)
CountLoop(i, n, limited, st) ==
  IF i > n \/ st.stop THEN st
  ELSE IF i = n THEN CountBody(i, limited, st)
  ELSE CountLoop((i + n) \div 2 + 1, n, limited,
                 CountLoop(i, (i + n) \div 2, limited, st))

\* detectPricesFromSemanticHTML: every match of the attribute selectors
CountSemantic(l) == CountLoop(1, l.total, FALSE, LoopState(l.done, 0))

\* detectPricesFromVisualStyles: the first MAX_ELEMENTS matches
CountVisual(l) == CountLoop(1, Min(l.total, ElementCeiling), FALSE, LoopState(l.done, 0))

\* pass 14: every selector match, until the conversion limit
CountSelector(l, converted) == CountLoop(1, l.total, TRUE, LoopState(l.done, converted))

\* the text nodes in the target currency that acceptNode accepts ahead of
\* the prices: the loop skips them without adding them to processedElements
SameCurrencyTaken(l) == Min(l.ahead, WalkerNodeLimit)

\* strategy 2: the first WalkerNodeLimit text nodes whose parent is not
\* processed, until the conversion limit
CountWalker(l, converted) ==
  IF converted < ConversionLimit
    THEN CountLoop(l.done + 1,
                   Min(l.total, l.done + WalkerNodeLimit - SameCurrencyTaken(l)), TRUE,
                   [LoopState(l.done, converted) EXCEPT !.examined = SameCurrencyTaken(l)])
    ELSE LoopState(l.done, converted)

\* what one convertPrices call leaves: the lists, the final value of
\* converted, and how many elements each loop visited
CountResult(pop, a, v, s, w) ==
  [pop |-> [attr |-> [pop.attr EXCEPT !.done = a.done],
            styled |-> [pop.styled EXCEPT !.done = v.done],
            sel |-> [pop.sel EXCEPT !.done = s.done],
            text |-> [pop.text EXCEPT !.done = w.done]],
   converted |-> w.converted,
   examined |-> [attr |-> a.examined, styled |-> v.examined,
                 sel |-> s.examined, text |-> w.examined]]

CountStrategy2(pop, a, v, s) == CountResult(pop, a, v, s, CountWalker(pop.text, s.converted))

CountPass14(pop, a, v) ==
  CountStrategy2(pop, a, v, CountSelector(pop.sel, a.converted + v.converted))

\* convertPrices() on the counted page
CountConvertPrices(pop) ==
  CountPass14(pop, CountSemantic(pop.attr), CountVisual(pop.styled))

NoCount ==
  [ran |-> FALSE, converted |-> 0, examined |-> [l \in ListNames |-> 0],
   idle |-> FALSE]

InitCount ==
  /\ page \in {pg \in FlatPages : pg.kinds[1] = KPrice}
  /\ dom = [e \in Elems |-> FreshElement(page.kinds[e])]
  /\ processedElements = {}
  /\ settings = DefaultSettings
  /\ stored = settings
  /\ exchangeRates = BuiltinRates
  /\ pc = "ready"
  /\ timers = {"init"}
  /\ pendingLoads = 0
  /\ pendingPos = {}
  /\ lastClickedPrice = NoClick
  /\ lastScan = NoScan
  /\ events = 0
  /\ \E na \in ListSizes("attr"), nv \in ListSizes("styled"),
        ns \in ListSizes("sel"), nt \in ListSizes("text"),
        ahead \in {0, WalkerNodeLimit} :
        detail = [phase |-> "count",
                  pop |-> [attr |-> [total |-> na, done |-> 0],
                           styled |-> [total |-> nv, done |-> 0],
                           sel |-> [total |-> ns, done |-> 0],
                           text |-> [total |-> nt, done |-> 0, ahead |-> ahead]],
                  last |-> NoCount,
                  grown |-> 0]

\* a scan runs
CountScan ==
  /\ detail.phase = "count"
  /\ \E r \in {CountConvertPrices(detail.pop)} :
        detail' = [detail EXCEPT !.pop = r.pop,
                                 !.last = [ran |-> TRUE, converted |-> r.converted,
                                           examined |-> r.examined,
                                           idle |-> (r.pop = detail.pop)]]
  /\ UNCHANGED scanVars

\* the page appends one more price to one of its lists
CountGrow ==
  /\ detail.phase = "count"
  /\ detail.grown < MaxEvents
  /\ \E l \in ListNames :
        detail' = [detail EXCEPT !.pop[l].total = @ + 1, !.grown = @ + 1,
                                 !.last.idle = FALSE]
  /\ UNCHANGED scanVars

NextCount ==
  \/ CountScan
  \/ CountGrow

SpecCount == InitCount /\ [][NextCount]_vars

\* ===================================================================== claims
VisibleText(d, e) == <<d[e].form, d[e].cur, d[e].val>>

\* C1: a scan that starts from the state the previous scan left (same DOM,
\* settings and rates) changes nothing and reports a conversion count of zero.
C1_SecondScanConvertsNothing ==
  lastScan.repeat => (lastScan.converted = 0 /\ ~lastScan.changed)

\* C2: after a settings change the next scan re-evaluates every element a scan
\* converted before, so whatever a scan converted shows the target currency of
\* the latest scan.
C2_SettingsChangeRescansAll ==
  \A e \in Elems : (lastScan.ran /\ dom[e].by = "scan") => dom[e].to = lastScan.target

\* C3: every conversion path checks and sets the processed mark around its
\* mutation, so no interleaving converts the same element more than once.
C3_NoDoubleConversion ==
  \A e \in Elems : dom[e].nconv <= 1

\* C4: a price already in the target currency is never converted to itself,
\* whichever entry point handles it.
C4_NeverSameCurrency ==
  \A e \in Elems : dom[e].nconv > 0 => dom[e].from # dom[e].to

\* C5: no path stores or displays a converted value when a rate is missing or
\* the result is NaN: no element ever shows or records a NaN amount.
C5_NoNaNDisplayed ==
  \A e \in Elems : dom[e].val # NaN /\ dom[e].dsText.val # NaN

C7_FailureDoesNotAbortScan ==
  lastScan.missed = {}

\* C10: a scan rewrites the visible text of an element only when the replace
\* display mode is on.
C10_ScanRewritesOnlyInReplaceMode ==
  [][\A e \in Elems :
       (dom'[e].by = "scan" /\ VisibleText(dom', e) # VisibleText(dom, e))
         => settings.replacePrice]_vars

\* what stands before and after the price the user clicked
TextBefore(d) == Substring(TextContent(d.before.nodes), 0, d.target.startIndex)
TextAfter(d) == SubstringFrom(TextContent(d.before.nodes), d.target.endIndex)
EndsWith(t, p) == StartsAt(t, p, Len(t) - Len(p))

\* C8: a clicked-price conversion that replaced no text leaves the element as
\* it was: its text nodes, its title and its data-* attributes
C8_FailedClickLeavesElement ==
  (detail.phase = "done" /\ ~detail.located) => detail.el = detail.before

\* C9: after a clicked-price conversion the text before and the text after
\* the clicked price are what they were
C9_ContextPreserved ==
  (detail.phase = "done" /\ detail.located) =>
     /\ StartsAt(TextContent(detail.el.nodes), TextBefore(detail), 0)
     /\ EndsWith(TextContent(detail.el.nodes), TextAfter(detail))
\* an element whose latest conversion a scan made
ScanConverted(e) == dom[e].dsConverted /\ dom[e].by = "scan"

\* C11: no element with a confidence score below the threshold that is not a
\* fragmented price has been converted by a scan
C11_LowConfidenceNotConverted ==
  \A e \in Elems :
     ScanConverted(e) =>
        \/ page.kinds[e].fragmented
        \/ ScorePriceElement(page.kinds[e]) >= ConfidenceThreshold

\* C12: no scan converts an element whose text matches a phone, percentage,
\* product-code or dimension pattern
C12_HardRejectNotConverted ==
  \A e \in Elems : ScanConverted(e) => ~page.kinds[e].reject

\* C13: no scan converts an element the sale-price detector scores above 50
C13_OldPriceNotConverted ==
  \A e \in Elems : ScanConverted(e) => page.kinds[e].saleConf <= SaleThreshold

\* C14: no scan converts an element the shipping-cost detector matches
C14_ShippingNotConverted ==
  \A e \in Elems : ScanConverted(e) => ~page.kinds[e].shipping

\* C15: the amount recorded for a converted element, on whichever path it was
\* converted, is greater than 0 and at most 1e9
C15_ConvertedAmountInRange ==
  \A e \in Elems :
     (dom[e].dsConverted /\ dom[e].dsAmt # NaN) =>
        (dom[e].dsAmt > 0 /\ dom[e].dsAmt <= MaxAmount)

\* C16: the rate table the content script converts with maps USD to 1
C16_UsdRateIsOne == Rate(exchangeRates, "USD") = RateScale

\* C17: no scan performs more than 100 conversions
C17_ScanConversionsBounded == detail.last.ran => detail.last.converted <= ConversionLimit

\* C18: no pass of a scan visits more than 500 elements
C18_PassElementsBounded ==
  detail.last.ran => \A l \in ListNames : detail.last.examined[l] <= ElementCeiling

\* ------------------------------------------------------- the timed scans
\* The scroll listener, the MutationObserver and their timers on a clock in
\* ms. A setTimeout callback runs when its delay has elapsed; events arrive
\* at multiples of TimeStep.
DebounceWait == 500
ThrottleLimit == 2000
InitDelay == 1000
TimeStep == DebounceWait \div 2
MaxClock == ThrottleLimit + DebounceWait

\* the nodes a mutation record can add
AddedNodes == {"priceElement", "plainElement", "textNode"}

\* the MutationObserver callback: shouldConvert
ShouldConvert(node) == node = "priceElement"

\* debounce(func, wait): clearTimeout(timeout); timeout = setTimeout(...)
\* as the set of due times of the callbacks still pending
DebounceNoClear(timeout, now) == timeout \cup {now + DebounceWait}
Debounce(timeout, now) == {now + DebounceWait}

\* throttle(func, limit) after func.apply: inThrottle = true and the reset
\* timer, both skipped when func threw
ThrottleAfter(t, now, threw) ==
  IF threw THEN t
  ELSE [inThrottle |-> TRUE, resets |-> t.resets \cup {now + ThrottleLimit}]

NoMutationScan == [ran |-> FALSE, at |-> 0, note |-> 0, burst |-> 0]

timeFixed == <<page, settings, stored, exchangeRates, pc, timers, pendingLoads,
               pendingPos, lastClickedPrice, events>>

\* init() has returned: the first scan is due in 1000 ms, observer and scroll
\* listener are set up
InitTime ==
  /\ page \in {pg \in FlatPages : pg.kinds[1] \in {KPrice, KBad}}
  /\ dom = [e \in Elems |-> FreshElement(page.kinds[e])]
  /\ processedElements = {}
  /\ settings = DefaultSettings
  /\ stored = settings
  /\ exchangeRates = BuiltinRates
  /\ pc = "ready"
  /\ timers = {}
  /\ pendingLoads = 0
  /\ pendingPos = {}
  /\ lastClickedPrice = NoClick
  /\ lastScan = NoScan
  /\ events = 0
  /\ detail = [phase |-> "time", now |-> 0,
               initDue |-> {InitDelay},
               timeout |-> {},
               throttle |-> [inThrottle |-> FALSE, resets |-> {}],
               lastNote |-> Null, burst |-> 0, sinceNote |-> 0,
               mutationScan |-> NoMutationScan,
               scrollAt |-> Null, scrollGap |-> Null, lastScroll |-> Null]

PendingDue == detail.initDue \cup detail.timeout \cup detail.throttle.resets

\* the next instant: one step on, or the earliest callback due before that
TickTo(now, due) ==
  IF \E t \in due : t < now + TimeStep
    THEN CHOOSE t \in due : \A u \in due : t <= u
    ELSE now + TimeStep

\* time passes while no callback is due
TimeTick ==
  /\ detail.phase = "time"
  /\ detail.now < MaxClock
  /\ \A t \in PendingDue : t > detail.now
  /\ detail' = [detail EXCEPT !.now = TickTo(@, PendingDue)]
  /\ UNCHANGED <<dom, processedElements, lastScan>>
  /\ UNCHANGED timeFixed

\* setTimeout(convertPrices, 1000) of init() runs
TimeInitFires ==
  /\ detail.phase = "time"
  /\ detail.now \in detail.initDue
  /\ RunScan
  /\ detail' = [detail EXCEPT !.initDue = {}]
  /\ UNCHANGED timeFixed

\* the MutationObserver callback with one added node
TimeNotify ==
  /\ detail.phase = "time"
  /\ \E node \in AddedNodes :
        IF ShouldConvert(node)
          THEN detail' = [detail EXCEPT
                 !.timeout = Debounce(@, detail.now),
                 !.burst = IF detail.lastNote # Null
                              /\ detail.now - detail.lastNote < DebounceWait
                             THEN Min(@ + 1, 3) ELSE 1,
                 !.lastNote = detail.now,
                 !.sinceNote = 0]
          ELSE UNCHANGED detail
  /\ UNCHANGED <<dom, processedElements, lastScan>>
  /\ UNCHANGED timeFixed

\* the callback debounce() scheduled runs convertPrices
TimeDebounceFires ==
  /\ detail.phase = "time"
  /\ detail.now \in detail.timeout
  /\ RunScan
  /\ detail' = [detail EXCEPT
        !.timeout = @ \ {detail.now},
        !.sinceNote = Min(@ + 1, 2),
        !.mutationScan = [ran |-> TRUE, at |-> detail.now,
                          note |-> detail.lastNote, burst |-> detail.burst]]
  /\ UNCHANGED timeFixed

\* a scroll event reaches the function throttle() returned
TimeScroll ==
  /\ detail.phase = "time"
  /\ IF detail.throttle.inThrottle
       THEN /\ detail' = [detail EXCEPT !.lastScroll = detail.now]
            /\ UNCHANGED <<dom, processedElements, lastScan>>
       ELSE /\ RunScan
            /\ detail' = [detail EXCEPT
                  !.lastScroll = detail.now,
                  !.throttle = ThrottleAfter(@, detail.now, lastScan'.thrown),
                  !.scrollGap = IF detail.scrollAt = Null THEN @
                                ELSE detail.now - detail.scrollAt,
                  !.scrollAt = detail.now]
  /\ UNCHANGED timeFixed

\* setTimeout(() => inThrottle = false, limit) runs
TimeThrottleReset ==
  /\ detail.phase = "time"
  /\ detail.now \in detail.throttle.resets
  /\ detail' = [detail EXCEPT !.throttle = [inThrottle |-> FALSE,
                                            resets |-> @.resets \ {detail.now}]]
  /\ UNCHANGED <<dom, processedElements, lastScan>>
  /\ UNCHANGED timeFixed

NextTime ==
  \/ TimeTick
  \/ TimeInitFires
  \/ TimeNotify
  \/ TimeDebounceFires
  \/ TimeScroll
  \/ TimeThrottleReset

SpecTime == InitTime /\ [][NextTime]_vars

\* C19: a burst of qualifying mutation notifications less than 500 ms apart
\* starts exactly one scan, 500 ms after the last notification of the burst:
\* the debounced scan starts 500 ms after the latest notification, at most one
\* follows a notification, and until it has run its callback is pending
C19_MutationScansDebounced ==
  detail.phase = "time" =>
    /\ detail.mutationScan.ran =>
          detail.mutationScan.at = detail.mutationScan.note + DebounceWait
    /\ detail.sinceNote <= 1
    /\ (detail.lastNote # Null /\ detail.sinceNote = 0) =>
          (detail.timeout = {detail.lastNote + DebounceWait}
             /\ detail.now <= detail.lastNote + DebounceWait)

\* a burst of three notifications has been answered by its one scan
C19_Witness ==
  /\ detail.phase = "time"
  /\ detail.mutationScan.ran /\ detail.mutationScan.burst >= 3
  /\ detail.sinceNote = 1 /\ detail.timeout = {}
  /\ detail.mutationScan.at = detail.lastNote + DebounceWait

\* C20: any two scans the scroll handler starts are at least 2000 ms apart
C20_ScrollScansApart ==
  (detail.phase = "time" /\ detail.scrollGap # Null) =>
     detail.scrollGap >= ThrottleLimit

\* C21: a scan that converts a price range such as "$10-$20" carries only the
\* minimum forward: the conversion it stores and shows is that of the minimum
\* alone, and the original range text stays available for display
C21_RangeConvertsMinimumOnly ==
  \A e \in Elems :
     (ScanConverted(e) /\ page.kinds[e].range /\ dom[e].nconv = 1) =>
        /\ dom[e].dsText.val
             = ConvertPriceRange(page.kinds[e].amt, page.kinds[e].src,
                                 dom[e].to, exchangeRates)
        /\ dom[e].shownMax = Null
        /\ (dom[e].form = "orig" \/ dom[e].title = "orig")

\* ------------------------------------------------ the fragmented price
\* extractFragmentedPrice(element) on a container whose text is all in its
\* child spans and which is its parent's only content.  A span is given by
\* its trimmed text.
MaxSpans == 4
UsDollar == <<"U", "S", " ", "$">>
SpanTexts ==
  { UsDollar, <<"$">>, <<"U", "S">>, <<"1", "3", "4">>, <<"9", "8">>,
    <<".">>, <<",">>, <<>>, <<"x">> }

AllDigits(t) == t # <<>> /\ \A i \in 1..Len(t) : IsDigit(t[i])
AllCapitals(t) == \A i \in 1..Len(t) : IsUpper(t[i])
\* US\s*\$
IsUsDollar(t) ==
  /\ Len(t) >= 3 /\ t[1] = "U" /\ t[2] = "S" /\ t[Len(t)] = "$"
  /\ \A i \in 3..(Len(t) - 1) : IsSpace(t[i])
IsSymbolText(t) == Len(t) = 1 /\ IsSymbol(t[1])

\* the fields of one entry of fragments
IsDecimalFragment(t) == t \in {<<".">>, <<",">>}
IsDigitFragment(t) == AllDigits(t)
IsCurrencyFragment(t) ==
  IsUsDollar(t) \/ (Len(t) = 3 /\ AllCapitals(t)) \/ IsSymbolText(t)

\* FRAGMENTED_PRICE_RULES.aliexpress.validFragmentPattern
ValidFragment(t) ==
  \/ IsUsDollar(t) \/ (Len(t) \in {2, 3} /\ AllCapitals(t)) \/ IsSymbolText(t)
  \/ AllDigits(t) \/ IsDecimalFragment(t)

\* the spans that pass the filter, in document order
Fragments(spans) == SelectSeq(spans, LAMBDA t : t # <<>> /\ ValidFragment(t))

\* the separator the spacing logic puts before fragment i
Spacing(f, i) ==
  IF i = 1 THEN <<>>
  ELSE IF IsDecimalFragment(f[i]) \/ IsDecimalFragment(f[i - 1]) THEN <<>>
  ELSE IF IsDigitFragment(f[i]) /\ IsDigitFragment(f[i - 1]) THEN <<>>
  ELSE IF IsCurrencyFragment(f[i - 1]) THEN <<" ">>
  ELSE IF IsCurrencyFragment(f[i]) /\ IsDigitFragment(f[i - 1]) THEN <<" ">>
  ELSE <<>>

\* the loop that builds reconstructed from fragments 1..i
RECURSIVE Reconstruct(_, _)
Reconstruct(f, i) ==
  IF i = 0 THEN <<>> ELSE Reconstruct(f, i - 1) \o Spacing(f, i) \o f[i]

\* .replace(/\s+c/g, 'c') and .replace(/c\s+/g, 'c')
RECURSIVE NoSpaceBefore(_, _)
NoSpaceBefore(t, c) ==
  IF t = <<>> THEN <<>>
  ELSE IF IsSpace(Head(t)) /\ TrimStart(t) # <<>> /\ Head(TrimStart(t)) = c
    THEN <<c>> \o NoSpaceBefore(Tail(TrimStart(t)), c)
  ELSE <<Head(t)>> \o NoSpaceBefore(Tail(t), c)
RECURSIVE NoSpaceAfter(_, _)
NoSpaceAfter(t, c) ==
  IF t = <<>> THEN <<>>
  ELSE IF Head(t) = c THEN <<c>> \o NoSpaceAfter(TrimStart(Tail(t)), c)
  ELSE <<Head(t)>> \o NoSpaceAfter(Tail(t), c)

\* the clean-up of reconstructed
CleanReconstructed(t) ==
  Trim(NoSpaceAfter(NoSpaceBefore(NoSpaceAfter(NoSpaceBefore(t, "."), "."), ","), ","))

\* extractFragmentedPrice(element) for a container of spans
ExtractFragmentedSpans(spans, hasCurrencyMetadata) ==
  IF /\ Len(spans) >= 2
     /\ Len(Fragments(spans)) >= 2
     /\ \/ hasCurrencyMetadata
        \/ /\ \E i \in 1..Len(Fragments(spans)) : IsCurrencyFragment(Fragments(spans)[i])
           /\ \E i \in 1..Len(Fragments(spans)) : IsDigitFragment(Fragments(spans)[i])
    THEN NormalizePriceText(
           CleanReconstructed(Reconstruct(Fragments(spans), Len(Fragments(spans)))))
    ELSE ExtractFragmentedPrice([i \in 1..Len(spans) |-> [text |-> spans[i]]])

SpanLists == UNION { [1..n -> SpanTexts] : n \in 0..MaxSpans }

InitFrag ==
  /\ page \in {pg \in FlatPages : pg.kinds[1] = KFrag}
  /\ dom = [e \in Elems |-> FreshElement(page.kinds[e])]
  /\ processedElements = {}
  /\ settings = DefaultSettings
  /\ stored = settings
  /\ exchangeRates = BuiltinRates
  /\ pc = "ready"
  /\ timers = {"init"}
  /\ pendingLoads = 0
  /\ pendingPos = {}
  /\ lastClickedPrice = NoClick
  /\ lastScan = NoScan
  /\ events = 0
  /\ \E spans \in SpanLists, meta \in BOOLEAN :
        detail = [phase |-> "frag", spans |-> spans, meta |-> meta,
                  done |-> FALSE, text |-> <<>>]

\* the selector loop reaches the container: text = fragmentedPrice
ExtractFragments ==
  /\ detail.phase = "frag" /\ ~detail.done
  /\ detail' = [detail EXCEPT !.done = TRUE,
                              !.text = ExtractFragmentedSpans(detail.spans, detail.meta)]
  /\ UNCHANGED scanVars

NextFrag == ExtractFragments

SpecFrag == InitFrag /\ [][NextFrag]_vars

AliExpressSpans == <<UsDollar, <<"1", "3", "4">>, <<".">>, <<"9", "8">>>>

\* C22: assembling the fragments "US $", "134", ".", "98" yields exactly
\* "US $134.98"
C22_FragmentsAssembleExactly ==
  (detail.phase = "frag" /\ detail.done /\ detail.spans = AliExpressSpans) =>
     detail.text = <<"U", "S", " ", "$", "1", "3", "4", ".", "9", "8">>

\* C23: every conversion on display is derived from the original page text,
\* never from converted text: the source currency of an element's latest
\* conversion is the currency the page wrote, and the source amount recorded
\* with it is the amount the page wrote
C23_ConversionFromOriginal ==
  \A e \in Elems :
     (dom[e].dsConverted /\ dom[e].by # "none") =>
        /\ dom[e].from = page.kinds[e].src
        /\ dom[e].dsAmt # NaN => dom[e].dsAmt = page.kinds[e].amt

\* C24: while init() is still awaiting loadSettings or loadRates, no element
\* has been converted or marked processed
C24_NoConversionBeforeInitDone ==
  pc # "ready" =>
     /\ processedElements = {}
     /\ \A e \in Elems : ~dom[e].dsConverted

\* C25: on a page that no longer changes every convertible price in a text
\* node is converted after finitely many scans: a scan that converts nothing
\* finds no such price left
C25_NoPriceStarved ==
  (detail.phase = "count" /\ detail.last.ran /\ detail.last.idle) =>
     detail.pop.text.done = detail.pop.text.total

\* C26: no DOM write of the extension makes the mutation observer schedule a
\* scan
C26_OwnWritesScheduleNoScan ==
  detail.phase \in {"page", "scanned", "stored", "done"} => ~detail.rescan

\* C27: the element convertClickedPrice converts is the price element of the
\* most recent right-click
C27_TargetIsLatestRightClick ==
  lastClickedPrice.clicked # NoElem => lastClickedPrice.el = lastClickedPrice.clicked

\* every settings load has completed and every scan timer has run
SettingsQuiet ==
  pc = "ready" /\ pendingLoads = 0 /\ timers \subseteq {"throttle"}

C29_LastScrollScanned ==
  (/\ detail.phase = "time" /\ detail.lastScroll # Null
   /\ ~detail.throttle.inThrottle /\ detail.throttle.resets = {}) =>
     (detail.scrollAt # Null /\ detail.scrollAt >= detail.lastScroll)

\* ------------------------------------------------------ the popup converter
\* popup.js: the amount field, the two currency selects, the result field,
\* isConverting, the convertCurrency call that awaits the history save, the
\* debounce timer of the amount field, the defaults in chrome.storage.sync
\* and the storage.onChanged events not yet delivered.  Amounts are whole
\* units, the result is in hundredths.
PopupAmounts == {0, 10, 20}
PopupCurrencies == {"USD", "EUR", "GBP"}
MaxPending == 1
NoCall == [from |-> NoCurrency, to |-> NoCurrency]

\* the value convertCurrency writes for the inputs of p; Null is the empty field
PopupResult(p) ==
  IF p.amount <= 0 THEN Null
  ELSE IF p.from = p.to THEN 100 * p.amount
  ELSE MulDiv(100 * p.amount, Rate(BuiltinRates, p.to), Rate(BuiltinRates, p.from))

\* convertCurrency() up to its await
ConvertCurrency(p) ==
  IF p.isConverting THEN p
  ELSE IF p.amount <= 0 THEN [p EXCEPT !.display = Null]
  ELSE IF Rate(BuiltinRates, p.from) = 0 \/ Rate(BuiltinRates, p.to) = 0 THEN p
  ELSE IF p.from = p.to THEN [p EXCEPT !.display = PopupResult(p)]
  ELSE [p EXCEPT !.isConverting = TRUE, !.display = PopupResult(p),
                 !.call = [from |-> p.from, to |-> p.to]]

\* the keys a chrome.storage.sync.set of the call's currencies changes
ChangedKeys(defaults, call) ==
  [src |-> IF defaults.src # call.from THEN call.from ELSE NoCurrency,
   tgt |-> IF defaults.tgt # call.to THEN call.to ELSE NoCurrency]

\* convertCurrency() after the await: the defaults are stored, isConverting
\* is reset
ConvertCurrencyResumes(p) ==
  [p EXCEPT !.isConverting = FALSE, !.call = NoCall,
            !.stored = [src |-> p.call.from, tgt |-> p.call.to],
            !.pending = IF ChangedKeys(p.stored, p.call)
                            = [src |-> NoCurrency, tgt |-> NoCurrency]
                          THEN @ ELSE Append(@, ChangedKeys(p.stored, p.call))]

\* the chrome.storage.onChanged listener: defaultTargetCurrency first, then
\* defaultSourceCurrency, each followed by convertCurrency()
OnTargetChanged(p, c) ==
  IF c.tgt = NoCurrency THEN p ELSE ConvertCurrency([p EXCEPT !.to = c.tgt])
OnSourceChanged(p, c) ==
  IF c.src = NoCurrency THEN p ELSE ConvertCurrency([p EXCEPT !.from = c.src])
OnStorageChanged(p, c) == OnSourceChanged(OnTargetChanged(p, c), c)

\* the popup is open and shows the result of its inputs
InitPopup ==
  /\ page \in {pg \in FlatPages : pg.kinds[1] = KPrice}
  /\ dom = [e \in Elems |-> FreshElement(page.kinds[e])]
  /\ processedElements = {}
  /\ settings = DefaultSettings
  /\ stored = settings
  /\ exchangeRates = BuiltinRates
  /\ pc = "ready"
  /\ timers = {"init"}
  /\ pendingLoads = 0
  /\ pendingPos = {}
  /\ lastClickedPrice = NoClick
  /\ lastScan = NoScan
  /\ events = 0
  /\ \E a \in PopupAmounts, f \in PopupCurrencies, t \in PopupCurrencies :
        detail = [phase |-> "popup", amount |-> a, from |-> f, to |-> t,
                  display |-> PopupResult([amount |-> a, from |-> f, to |-> t]),
                  isConverting |-> FALSE, call |-> NoCall, debounce |-> FALSE,
                  stored |-> [src |-> f, tgt |-> t], pending |-> <<>>]

\* the user edits the amount: debounce(convertCurrency, 300) restarts
PopupInput ==
  /\ detail.phase = "popup"
  /\ \E a \in PopupAmounts \ {detail.amount} :
        detail' = [detail EXCEPT !.amount = a, !.debounce = TRUE]
  /\ UNCHANGED scanVars

\* the timer of the amount field runs convertCurrency()
PopupDebounceFires ==
  /\ detail.phase = "popup" /\ detail.debounce
  /\ detail' = ConvertCurrency([detail EXCEPT !.debounce = FALSE])
  /\ UNCHANGED scanVars

\* the user picks another source currency
PopupChangeFrom ==
  /\ detail.phase = "popup"
  /\ \E c \in PopupCurrencies \ {detail.from} :
        detail' = ConvertCurrency([detail EXCEPT !.from = c])
  /\ UNCHANGED scanVars

\* the user picks another target currency
PopupChangeTo ==
  /\ detail.phase = "popup"
  /\ \E c \in PopupCurrencies \ {detail.to} :
        detail' = ConvertCurrency([detail EXCEPT !.to = c])
  /\ UNCHANGED scanVars

\* await saveConversionToHistory(...) returns
PopupHistorySaved ==
  /\ detail.phase = "popup" /\ detail.isConverting
  /\ Len(detail.pending) < MaxPending
  /\ detail' = ConvertCurrencyResumes(detail)
  /\ UNCHANGED scanVars

\* a storage.onChanged event is delivered
PopupStorageChanged ==
  /\ detail.phase = "popup" /\ detail.pending # <<>>
  /\ detail' = OnStorageChanged([detail EXCEPT !.pending = Tail(@)],
                                Head(detail.pending))
  /\ UNCHANGED scanVars

NextPopup ==
  \/ PopupInput
  \/ PopupDebounceFires
  \/ PopupChangeFrom
  \/ PopupChangeTo
  \/ PopupHistorySaved
  \/ PopupStorageChanged

SpecPopup == InitPopup /\ [][NextPopup]_vars

\* C30: once the popup has come to rest (no call awaiting, no timer, no
\* storage event outstanding) the result on display is that of the latest
\* amount and currencies
C30_DisplayMatchesInputs ==
  (/\ detail.phase = "popup" /\ ~detail.isConverting /\ ~detail.debounce
   /\ detail.pending = <<>>) =>
     detail.display = PopupResult(detail)
====
